---- MODULE Spec2Model ----
(***************************************************************************)
(* MemoBuild: the build driver (execute_graph over a BuildGraph), the      *)
(* local on-disk cache (LocalCache), and the two-tier HybridCache.         *)
(*                                                                         *)
(* Conventions.  Option<T> is a sequence: <<>> is None, <<x>> is Some(x).  *)
(* Byte strings are sequences of small integers.  A Result is a record     *)
(* with a field ok; the `?` operator of the source is "if not ok, return   *)
(* the error with the state reached so far".  A HashMap is a function      *)
(* whose DOMAIN is its key set.                                            *)
(***************************************************************************)
EXTENDS Integers, Sequences, FiniteSets, TLC

\* ------------------------------------------------------------------ bounds
NumKeys == 2
MaxNodes == 2
MaxBuilds == 2
MaxCalls == 3
MaxFaults == 1
MaxPuts == 3
MaxAttempt == 7
JitterSteps == 8
MaxInstr == 3
NumPaths == 3
NumContents == 2
MaxTopoNodes == 3
MaxDeps == 2
NumMsgs == 2
MaxLines == 2

\* Cache keys (node hashes).  The executor consumes hashes computed by the
\* key-computation pass: hex digests, never shorter than the 8 characters
\* execute_graph slices for its hit message.
Keys == 1 .. NumKeys

None == << >>
Some(x) == << x >>

\* The bytes the executor's simulated materializer produces for a node:
\* format!("artifact for {}: {}", name, content).  Byte 0 stands for the
\* fixed text, the second byte for the node's name and content.
ArtifactData(content) == << 0, content >>

\* Bytes that no materializer of this build produces (another machine's
\* upload, or a corrupted remote blob).
ForeignData == << 9 >>

\* The key of a node whose content is "RUN <cmd>": the digest of the
\* command, written as the command itself.
KeyOf(content) == content[2]

\* The content of the node with key k.
ContentOf(k) == << "RUN", k >>

\* The content address of a byte string, as the CAS rule hash(bytes) == key
\* reads it: an artifact hashes to the key of its node, foreign bytes hash
\* to no key of the build.
HashOf(data) == IF Len(data) = 2 /\ data[1] = 0 THEN KeyOf(data[2]) ELSE 0

\* The blobs that circulate under key k: the artifact of the node with that
\* key, or foreign bytes.
BlobsFor(k) == { ArtifactData(ContentOf(k)), ForeignData }

\* ------------------------------------------- I/O outcomes (the environment)
\* One handler invocation meets at most one failing I/O call, because every
\* call site propagates the error with `?`.  The fault names the call that
\* fails, should the handler reach it:
\*   read          fs::read of a blob fails
\*   blob_open     fs::write of a blob fails before the file is touched
\*   blob_partial  fs::write of a blob fails after truncating the file
\*   index_open    fs::write of index.json fails before the file is touched
\*   index_partial fs::write of index.json fails after truncating the file
\*   remote_get    RemoteCache::get returns Err
\*   remote_put_lost    RemoteCache::put returns Err, nothing stored
\*   remote_put_stored  RemoteCache::put returns Err, the blob was stored
LocalFaults == { "read", "blob_open", "blob_partial", "index_open", "index_partial" }
RemoteFaults == { "remote_get", "remote_put_lost", "remote_put_stored" }
Faults == { "none" } \cup LocalFaults \cup RemoteFaults

\* ------------------------------------------------------------- LocalCache
\* CacheEntry.  created_at is the wall clock at put time; no code reads it.
CacheEntry(key, data) ==
    [ cache_key |-> key, artifact_path |-> key, size |-> Len(data) ]

EmptyStore == << >>

\* index.json on disk: missing, a JSON object, text serde cannot parse, or
\* bytes that are not UTF-8 text at all.
\* HashMap::insert
MapInsert(m, k, v) ==
    [ x \in (DOMAIN m) \cup { k } |-> IF x = k THEN v ELSE m[x] ]

RECURSIVE to_string_pretty(_), from_str(_)

\* serde_json::to_string_pretty(&store): the JSON text, one member
\* << key, entry object >> per entry.  A HashMap is written in its iteration
\* order, which no reader of the text depends on: ascending keys here.
to_string_pretty(m) ==
    IF DOMAIN m = { } THEN << >>
    ELSE LET k == CHOOSE x \in DOMAIN m : \A y \in DOMAIN m : x <= y
         IN  << << k, m[k] >> >> \o to_string_pretty([ x \in DOMAIN m \ { k } |-> m[x] ])

\* serde_json::from_str::<HashMap<String, CacheEntry>>: the members are
\* inserted in text order.
from_str(text) ==
    IF text = << >> THEN EmptyStore
    ELSE MapInsert(from_str(SubSeq(text, 1, Len(text) - 1)),
                   text[Len(text)][1], text[Len(text)][2])

IndexMissing == [ state |-> "missing", text |-> << >> ]
IndexJson(m) == [ state |-> "json", text |-> to_string_pretty(m) ]
IndexCorrupt == [ state |-> "corrupt", text |-> << >> ]
IndexBinary == [ state |-> "binary", text |-> << >> ]

\* LocalCache::load_index: a missing file is an empty map; the file is read
\* with fs::read_to_string(path)?, an error when its bytes are not UTF-8;
\* text that does not parse is unwrap_or_default(), an empty map too.
load_index(file) ==
    CASE file.state = "missing" -> [ ok |-> TRUE, store |-> EmptyStore ]
      [] file.state = "binary" -> [ ok |-> FALSE, store |-> EmptyStore ]
      [] file.state = "json" -> [ ok |-> TRUE, store |-> from_str(file.text) ]
      [] OTHER -> [ ok |-> TRUE, store |-> EmptyStore ]

\* save_index that keeps the entries another instance has persisted: it
\* writes the union of the file's map and the in-memory map.
save_indexMerging(store, file, fault) ==
    LET old == load_index(file).store
        merged == [ x \in (DOMAIN old) \cup (DOMAIN store) |->
                      IF x \in DOMAIN store THEN store[x] ELSE old[x] ]
    IN  CASE fault = "index_open" -> [ ok |-> FALSE, file |-> file ]
          [] fault = "index_partial" -> [ ok |-> FALSE, file |-> IndexCorrupt ]
          [] OTHER -> [ ok |-> TRUE, file |-> IndexJson(merged) ]

\* LocalCache::save_index: fs::write(index_path, to_string_pretty(store)).
save_index(store, file, fault) ==
    CASE fault = "index_open" -> [ ok |-> FALSE, file |-> file ]
      [] fault = "index_partial" -> [ ok |-> FALSE, file |-> IndexCorrupt ]
      [] OTHER -> [ ok |-> TRUE, file |-> IndexJson(store) ]

\* LocalCache::exists: index lookup only.
exists(store, key) == key \in DOMAIN store

\* get_data that reports an indexed key whose blob file is gone as an error.
get_dataMissingIsError(lc, key, fault) ==
    IF key \in DOMAIN lc.store
    THEN IF lc.blobs[lc.store[key].artifact_path] = None \/ fault = "read"
         THEN [ ok |-> FALSE, val |-> None ]
         ELSE [ ok |-> TRUE, val |-> Some(lc.blobs[lc.store[key].artifact_path][1]) ]
    ELSE [ ok |-> TRUE, val |-> None ]

\* LocalCache::get_data.  lc is [store, index, blobs].
get_data(lc, key, fault) ==
    IF key \in DOMAIN lc.store /\ lc.blobs[lc.store[key].artifact_path] # None
    THEN IF fault = "read"
         THEN [ ok |-> FALSE, val |-> None ]
         ELSE [ ok |-> TRUE, val |-> Some(lc.blobs[lc.store[key].artifact_path][1]) ]
    ELSE [ ok |-> TRUE, val |-> None ]

\* What fs::write(full_path, data) leaves in the blob file.
WriteBlob(blobs, key, data, fault) ==
    CASE fault = "blob_open" -> [ ok |-> FALSE, blobs |-> blobs ]
      [] fault = "blob_partial" ->
            [ ok |-> FALSE, blobs |-> [ blobs EXCEPT ![key] = Some(<< >>) ] ]
      [] OTHER -> [ ok |-> TRUE, blobs |-> [ blobs EXCEPT ![key] = Some(data) ] ]

\* put that inserts the entry in memory and does not rewrite index.json.
LocalPutMissingSave(lc, key, data, fault) ==
    LET w == WriteBlob(lc.blobs, key, data, fault)
    IN  IF ~ w.ok
        THEN [ ok |-> FALSE, lc |-> [ lc EXCEPT !.blobs = w.blobs ] ]
        ELSE [ ok |-> TRUE,
               lc |-> [ store |-> MapInsert(lc.store, key, CacheEntry(key, data)),
                        index |-> lc.index,
                        blobs |-> w.blobs ] ]

\* put that writes the blob and the index without inserting the entry.
LocalPutNoInsert(lc, key, data, fault) ==
    LET w == WriteBlob(lc.blobs, key, data, fault)
        s == save_index(lc.store, lc.index, fault)
    IN  IF ~ w.ok
        THEN [ ok |-> FALSE, lc |-> [ lc EXCEPT !.blobs = w.blobs ] ]
        ELSE [ ok |-> s.ok,
               lc |-> [ store |-> lc.store, index |-> s.file, blobs |-> w.blobs ] ]

\* put that persists the index before it inserts the new entry.
LocalPutSaveBeforeInsert(lc, key, data, fault) ==
    LET w == WriteBlob(lc.blobs, key, data, fault)
        s == save_index(lc.store, lc.index, fault)
    IN  IF ~ w.ok
        THEN [ ok |-> FALSE, lc |-> [ lc EXCEPT !.blobs = w.blobs ] ]
        ELSE [ ok |-> s.ok,
               lc |-> [ store |-> MapInsert(lc.store, key, CacheEntry(key, data)),
                        index |-> s.file, blobs |-> w.blobs ] ]

\* LocalCache::put: write the blob, insert the entry, persist the index.
LocalPut(lc, key, data, fault) ==
    LET w == WriteBlob(lc.blobs, key, data, fault)
        store1 == MapInsert(lc.store, key, CacheEntry(key, data))
        s == save_index(store1, lc.index, fault)
    IN  IF ~ w.ok
        THEN [ ok |-> FALSE, lc |-> [ lc EXCEPT !.blobs = w.blobs ] ]
        ELSE [ ok |-> s.ok,
               lc |-> [ store |-> store1, index |-> s.file, blobs |-> w.blobs ] ]

\* ------------------------------------------------------------ RemoteCache
\* The remote tier behind the RemoteCache trait: a map from key to blob.
RemoteGet(remote, key, fault) ==
    IF fault = "remote_get"
    THEN [ ok |-> FALSE, val |-> None ]
    ELSE [ ok |-> TRUE, val |-> remote[key] ]

RemotePut(remote, key, data, fault) ==
    CASE fault = "remote_put_lost" -> [ ok |-> FALSE, remote |-> remote ]
      [] fault = "remote_put_stored" ->
            [ ok |-> FALSE, remote |-> [ remote EXCEPT ![key] = Some(data) ] ]
      [] OTHER -> [ ok |-> TRUE, remote |-> [ remote EXCEPT ![key] = Some(data) ] ]

\* ------------------------------------------------------------ HybridCache
\* hc is [lc, remote, hasRemote]: the LocalCache, the remote tier's content
\* and whether HybridCache.remote is Some.  Every operator returns the cache
\* it leaves and ops, the I/O calls it made, in order.
Op(name, key, ok) == [ op |-> name, key |-> key, ok |-> ok ]
HasOp(ops, name) == \E i \in 1 .. Len(ops) : ops[i].op = name
OpOk(ops, name) == \E i \in 1 .. Len(ops) : ops[i].op = name /\ ops[i].ok

\* get_artifact that returns a remote hit without writing it to the local
\* tier.
HybridGetNoPopulate(hc, key, fault) ==
    LET l == get_data(hc.lc, key, fault)
        r == RemoteGet(hc.remote, key, fault)
        o1 == << Op("local_get", key, l.ok) >>
        o2 == Append(o1, Op("remote_get", key, r.ok))
    IN  IF ~ l.ok THEN [ ok |-> FALSE, val |-> None, hc |-> hc, ops |-> o1 ]
        ELSE IF l.val # None THEN [ ok |-> TRUE, val |-> l.val, hc |-> hc, ops |-> o1 ]
        ELSE IF ~ hc.hasRemote THEN [ ok |-> TRUE, val |-> None, hc |-> hc, ops |-> o1 ]
        ELSE IF ~ r.ok THEN [ ok |-> FALSE, val |-> None, hc |-> hc, ops |-> o2 ]
        ELSE [ ok |-> TRUE, val |-> r.val, hc |-> hc, ops |-> o2 ]

\* get_artifact that pushes a local hit to the remote tier.
HybridGetWriteThrough(hc, key, fault) ==
    LET l == get_data(hc.lc, key, fault)
        w == RemotePut(hc.remote, key, l.val[1], fault)
    IN  IF l.ok /\ l.val # None /\ hc.hasRemote
        THEN [ ok |-> w.ok, val |-> IF w.ok THEN l.val ELSE None,
               hc |-> [ hc EXCEPT !.remote = w.remote ],
               ops |-> << Op("local_get", key, TRUE), Op("remote_put", key, w.ok) >> ]
        ELSE HybridGetNoPopulate(hc, key, fault)

\* HybridCache::get_artifact
HybridGet(hc, key, fault) ==
    LET l == get_data(hc.lc, key, fault)
        r == RemoteGet(hc.remote, key, fault)
        p == LocalPut(hc.lc, key, r.val[1], fault)
        o1 == << Op("local_get", key, l.ok) >>
        o2 == Append(o1, Op("remote_get", key, r.ok))
        o3 == Append(o2, Op("local_put", key, p.ok))
    IN  IF ~ l.ok THEN [ ok |-> FALSE, val |-> None, hc |-> hc, ops |-> o1 ]
        ELSE IF l.val # None THEN [ ok |-> TRUE, val |-> l.val, hc |-> hc, ops |-> o1 ]
        ELSE IF ~ hc.hasRemote THEN [ ok |-> TRUE, val |-> None, hc |-> hc, ops |-> o1 ]
        ELSE IF ~ r.ok THEN [ ok |-> FALSE, val |-> None, hc |-> hc, ops |-> o2 ]
        ELSE IF r.val = None THEN [ ok |-> TRUE, val |-> None, hc |-> hc, ops |-> o2 ]
        ELSE [ ok |-> p.ok,
               val |-> IF p.ok THEN r.val ELSE None,
               hc |-> [ hc EXCEPT !.lc = p.lc ],
               ops |-> o3 ]

\* put_artifact that undoes the local write when the remote put fails.
HybridPutRollback(hc, key, data, fault) ==
    LET p == LocalPut(hc.lc, key, data, fault)
        r == RemotePut(hc.remote, key, data, fault)
        o1 == << Op("local_put", key, p.ok) >>
        o2 == Append(o1, Op("remote_put", key, r.ok))
    IN  IF ~ p.ok
        THEN [ ok |-> FALSE, hc |-> [ hc EXCEPT !.lc = p.lc ], ops |-> o1 ]
        ELSE IF ~ hc.hasRemote
        THEN [ ok |-> TRUE, hc |-> [ hc EXCEPT !.lc = p.lc ], ops |-> o1 ]
        ELSE [ ok |-> r.ok,
               hc |-> [ hc EXCEPT !.lc = IF r.ok THEN p.lc ELSE hc.lc,
                                  !.remote = r.remote ],
               ops |-> o2 ]

\* put_artifact that uploads to the remote before it writes the local tier.
HybridPutRemoteFirst(hc, key, data, fault) ==
    LET r == RemotePut(hc.remote, key, data, fault)
        p == LocalPut(hc.lc, key, data, fault)
        o1 == << Op("remote_put", key, r.ok) >>
    IN  IF ~ hc.hasRemote
        THEN [ ok |-> p.ok, hc |-> [ hc EXCEPT !.lc = p.lc ],
               ops |-> << Op("local_put", key, p.ok) >> ]
        ELSE IF ~ r.ok
        THEN [ ok |-> FALSE, hc |-> [ hc EXCEPT !.remote = r.remote ], ops |-> o1 ]
        ELSE [ ok |-> p.ok,
               hc |-> [ hc EXCEPT !.lc = p.lc, !.remote = r.remote ],
               ops |-> Append(o1, Op("local_put", key, p.ok)) ]

\* HybridCache::put_artifact
HybridPut(hc, key, data, fault) ==
    LET p == LocalPut(hc.lc, key, data, fault)
        r == RemotePut(hc.remote, key, data, fault)
        o1 == << Op("local_put", key, p.ok) >>
        o2 == Append(o1, Op("remote_put", key, r.ok))
    IN  IF ~ p.ok
        THEN [ ok |-> FALSE, hc |-> [ hc EXCEPT !.lc = p.lc ], ops |-> o1 ]
        ELSE IF ~ hc.hasRemote
        THEN [ ok |-> TRUE, hc |-> [ hc EXCEPT !.lc = p.lc ], ops |-> o1 ]
        ELSE [ ok |-> r.ok,
               hc |-> [ hc EXCEPT !.lc = p.lc, !.remote = r.remote ],
               ops |-> o2 ]

\* ----------------------------------------------------- remote cache server
\* http::StatusCode
OK == 200
CREATED == 201
NOT_FOUND == 404
INTERNAL_SERVER_ERROR == 500

\* The I/O call of a handler that fails, should the handler reach it.
ServerFaults == { "storage_put", "storage_get", "metadata_insert", "metadata_exists" }

\* ArtifactStorage (LocalStorage): a blob store addressed by hash.  put
\* returns the path of the blob, which is modelled by the hash.
StoragePut(st, hash, body, fault) ==
    IF fault = "storage_put"
    THEN [ ok |-> FALSE, storage |-> st, path |-> None ]
    ELSE [ ok |-> TRUE, storage |-> [ st EXCEPT ![hash] = Some(body) ],
           path |-> Some(hash) ]

StorageGet(st, hash, fault) ==
    IF fault = "storage_get"
    THEN [ ok |-> FALSE, val |-> None ]
    ELSE [ ok |-> TRUE, val |-> st[hash] ]

\* MetadataStore: one row per hash.
MetadataInsert(md, hash, path, size, fault) ==
    IF fault = "metadata_insert"
    THEN [ ok |-> FALSE, metadata |-> md ]
    ELSE [ ok |-> TRUE,
           metadata |-> [ md EXCEPT ![hash] = Some([ path |-> path, size |-> size ]) ] ]

MetadataExists(md, hash, fault) ==
    IF fault = "metadata_exists"
    THEN [ ok |-> FALSE, val |-> FALSE ]
    ELSE [ ok |-> TRUE, val |-> md[hash] # None ]

\* HEAD /cache/:hash
check_cache(md, hash, fault) ==
    LET e == MetadataExists(md, hash, fault)
    IN  IF ~ e.ok THEN INTERNAL_SERVER_ERROR
        ELSE IF e.val THEN OK ELSE NOT_FOUND

\* GET /cache/:hash
get_artifact(st, hash, fault) ==
    LET g == StorageGet(st, hash, fault)
    IN  IF ~ g.ok THEN [ status |-> INTERNAL_SERVER_ERROR, body |-> None ]
        ELSE IF g.val # None THEN [ status |-> OK, body |-> g.val ]
        ELSE [ status |-> NOT_FOUND, body |-> None ]

\* PUT /cache/:hash, step 1: store the blob.  done = FALSE when the handler
\* goes on to step 2.
put_artifact_store(st, hash, body, fault) ==
    LET r == StoragePut(st, hash, body, fault)
    IN  IF r.ok
        THEN [ done |-> FALSE, status |-> 0, storage |-> r.storage,
               path |-> r.path[1], size |-> Len(body) ]
        ELSE [ done |-> TRUE, status |-> INTERNAL_SERVER_ERROR, storage |-> r.storage,
               path |-> 0, size |-> Len(body) ]

\* A step 2 that answers 201 without inserting the metadata row.
put_artifact_metadataSkipped(md, hash, path, size, fault) ==
    [ status |-> CREATED, metadata |-> md ]

\* PUT /cache/:hash, step 2: update the metadata and answer.
put_artifact_metadata(md, hash, path, size, fault) ==
    LET r == MetadataInsert(md, hash, path, size, fault)
    IN  IF ~ r.ok
        THEN [ status |-> INTERNAL_SERVER_ERROR, metadata |-> r.metadata ]
        ELSE [ status |-> CREATED, metadata |-> r.metadata ]

\* ------------------------------------------------------------ retry policy
\* RetryConfig.  backoff_multiplier is an f64; it is kept as a fraction
\* << numerator, denominator >>, so << 2, 1 >> is 2.0 and << 3, 2 >> is 1.5.
RetryConfig(max_attempts, initial_backoff_ms, max_backoff_ms, backoff_multiplier) ==
    [ max_attempts |-> max_attempts, initial_backoff_ms |-> initial_backoff_ms,
      max_backoff_ms |-> max_backoff_ms, backoff_multiplier |-> backoff_multiplier ]

\* RetryConfig::default()
DefaultRetryConfig == RetryConfig(3, 100, 5000, << 2, 1 >>)

RECURSIVE Pow(_, _)
Pow(b, e) == IF e = 0 THEN 1 ELSE b * Pow(b, e - 1)

Min(a, b) == IF a <= b THEN a ELSE b

\* calculate_backoff.  draw stands for rand::random::<f64>(), a value of
\* [0, 1): it is draw / JitterSteps.  The f64 arithmetic is done on exact
\* fractions and `as u64` truncates:
\*   backoff = min(initial * multiplier^attempt, max) as u64
\*   jitter  = backoff * (random * 0.4 - 0.2)
\*   result  = max(backoff + jitter, 0) as u64
\*           = backoff * (8 * JitterSteps + 4 * draw) / (10 * JitterSteps)
calculate_backoff(attempt, config, draw) ==
    LET backoff == Min(( config.initial_backoff_ms
                            * Pow(config.backoff_multiplier[1], attempt) )
                          \div Pow(config.backoff_multiplier[2], attempt),
                       config.max_backoff_ms)
    IN  ( backoff * (8 * JitterSteps + 4 * draw) ) \div (10 * JitterSteps)

\* ------------------------------------------------------------ file hasher
\* Relative paths are small integers whose numeric order is the
\* lexicographic order of the path strings; file contents are small
\* integers.
Paths == 1 .. NumPaths
Contents == 1 .. NumContents

\* hash_file: the BLAKE3 digest of the file's bytes, written as a tagged
\* value, so that different contents have different digests.
hash_file(content) == << "blake3", content >>

RECURSIVE ParCollect(_, _, _, _)

\* files.par_iter().map(..).collect(): the per-file tasks finish in the
\* order `completion` (indices into files); an indexed collect puts the
\* result of the task for files[i] in slot i of the Vec.
ParCollect(files, contents, completion, results) ==
    IF completion = << >> THEN results
    ELSE LET i == Head(completion)
             rel_path_str == files[i]
             file_hash == hash_file(contents[files[i]])
         IN  ParCollect(files, contents, Tail(completion),
                        [ results EXCEPT ![i] = << rel_path_str, file_hash >> ])

RECURSIVE FoldResults(_, _)

\* The `for (rel_path, file_hash) in results?` loop: what top_hasher has
\* been fed, update by update.
FoldResults(results, fed) ==
    IF results = << >> THEN fed
    ELSE FoldResults(Tail(results),
                     Append(Append(fed, Head(results)[1]), Head(results)[2]))

\* hash_dir.  files is what walk_dir returned, in the walker's order.  The
\* result is the digest input: top_hasher.finalize() of different inputs
\* is different.
hash_dir(files, contents, completion) ==
    LET results == ParCollect(files, contents, completion,
                              [ i \in 1 .. Len(files) |-> << >> ])
    IN  FoldResults(results, << >>)


\* ---------------------------------------------------- environment fingerprint
\* Strings are sequences of characters (small integers); as_bytes() of a
\* string is the sequence itself.  The order of String is lexicographic.
RECURSIVE LexLess(_, _)
LexLess(a, b) ==
    IF b = << >> THEN FALSE
    ELSE IF a = << >> THEN TRUE
    ELSE IF Head(a) # Head(b) THEN Head(a) < Head(b)
    ELSE LexLess(Tail(a), Tail(b))

RECURSIVE SortedKeys(_)

\* The keys of a BTreeMap in iteration order.
SortedKeys(S) ==
    IF S = { } THEN << >>
    ELSE LET least == CHOOSE x \in S : \A y \in S : x = y \/ LexLess(x, y)
         IN  << least >> \o SortedKeys(S \ { least })

RECURSIVE UpdatePairs(_, _, _)

\* The loop `for (k, v) in &map { hasher.update(k); hasher.update(v); }`
\* over the remaining keys: what the hasher has been fed, fed being the
\* bytes fed before.  Successive updates of a streaming hasher
\* concatenate.
UpdatePairs(map, keys, fed) ==
    IF keys = << >> THEN fed
    ELSE UpdatePairs(map, Tail(keys), (fed \o Head(keys)) \o map[Head(keys)])

\* blake3 finalize().to_hex() of the bytes fed: different inputs give
\* different digests.
Blake3(fed) == << "blake3", fed >>

EnvFingerprint(env_vars, toolchain, os, arch) ==
    [ env_vars |-> env_vars, toolchain |-> toolchain, os |-> os, arch |-> arch ]

\* The bytes EnvFingerprint::hash feeds to its hasher.
EnvFingerprint_fed(self) ==
    LET fed1 == self.os \o self.arch
        fed2 == UpdatePairs(self.env_vars, SortedKeys(DOMAIN self.env_vars), fed1)
    IN  UpdatePairs(self.toolchain, SortedKeys(DOMAIN self.toolchain), fed2)

\* EnvFingerprint::hash
EnvFingerprint_hash(self) == Blake3(EnvFingerprint_fed(self))


\* ------------------------------------------------------------ key computer
RECURSIVE Concat(_)
Concat(seqs) == IF seqs = << >> THEN << >> ELSE Head(seqs) \o Concat(Tail(seqs))

\* One node's inputs to the key computer: the hashes of its parents, its
\* content, the tree hash of its source_path (the empty string when the
\* node has none), its env map and the fingerprint hash.
KeyInput(parents, content, tree, env, fingerprint) ==
    [ parents |-> parents, content |-> content, tree |-> tree, env |-> env,
      fingerprint |-> fingerprint ]

\* The key preimage: parent hashes, content, tree hash, the env pairs in
\* sorted key order as k_bytes || v_bytes, and the fingerprint hash.
key_preimage(n) ==
    LET fed1 == (Concat(n.parents) \o n.content) \o n.tree
        fed2 == UpdatePairs(n.env, SortedKeys(DOMAIN n.env), fed1)
    IN  fed2 \o n.fingerprint

\* node.hash
compute_key(n) == Blake3(key_preimage(n))



\* ------------------------------------------------------------ error taxonomy
\* MemoBuildError: a record with its variant and the variant's fields.
NetworkError(message, retryable, attempt) ==
    [ variant |-> "NetworkError", message |-> message, retryable |-> retryable,
      attempt |-> attempt ]
CASIntegrityFailure(expected, actual, data_size) ==
    [ variant |-> "CASIntegrityFailure", expected |-> expected, actual |-> actual,
      data_size |-> data_size ]
StorageError(operation, reason) ==
    [ variant |-> "StorageError", operation |-> operation, reason |-> reason ]
CacheCoherencyError(hash, reason) ==
    [ variant |-> "CacheCoherencyError", hash |-> hash, reason |-> reason ]
SyncError(message, recovered) ==
    [ variant |-> "SyncError", message |-> message, recovered |-> recovered ]
MetadataError(operation, reason) ==
    [ variant |-> "MetadataError", operation |-> operation, reason |-> reason ]
ConstraintViolation(reason) == [ variant |-> "ConstraintViolation", reason |-> reason ]
OtherError(e) == [ variant |-> "Other", error |-> e ]

\* is_retryable that takes every network error for a transient one.
is_retryableAnyNetwork(err) ==
    err.variant \in { "NetworkError", "MetadataError", "SyncError" }

\* is_retryable
is_retryable(err) ==
    CASE err.variant = "NetworkError" -> err.retryable
      [] err.variant = "CASIntegrityFailure" -> FALSE
      [] err.variant = "StorageError" -> FALSE
      [] err.variant = "CacheCoherencyError" -> FALSE
      [] err.variant = "MetadataError" -> TRUE
      [] err.variant = "SyncError" -> TRUE
      [] err.variant = "ConstraintViolation" -> FALSE
      [] err.variant = "Other" -> FALSE

\* ------------------------------------------------------------- BuildGraph
\* Node ids are 0-based as in the source; nodes is the Vec<Node>, so the
\* node with id i is nodes[i + 1].
NodeAt(nodes, id) == nodes[id + 1]

\* Instruction (docker/parser.rs).  Strings are small integers; Dot is the
\* string ".".  The raw line of Other is a tuple of its words.
Dot == 0
From(img) == << "From", img >>
Workdir(dir) == << "Workdir", dir >>
Copy(src, dst) == << "Copy", src, dst >>
Run(cmd) == << "Run", cmd >>
Env(key, value) == << "Env", key, value >>
Cmd(cmd) == << "Cmd", cmd >>
Git(url, target) == << "Git", url, target >>
Other(s) == << "Other", s >>

\* std::env::current_dir(), and PathBuf::join.
project_root == << "root" >>
Join(path, component) == Append(path, component)

Arm(content, source_path, kind, env) ==
    [ content |-> content, source_path |-> source_path, kind |-> kind, env |-> env ]

\* The `match instr` of build_graph_from_instructions, with the env map the
\* iteration has created before it: (content, source_path, kind) and env.
\* format! is modelled by the tuple of the keyword and the arguments.
MatchInstr(instr) ==
    CASE instr[1] = "From" ->
            Arm(<< "FROM", instr[2] >>, None, << "From" >>, EmptyStore)
      [] instr[1] = "Workdir" ->
            Arm(<< "WORKDIR", instr[2] >>, None, << "Workdir" >>, EmptyStore)
      [] instr[1] = "Copy" ->
            Arm(<< "COPY", instr[2], instr[3] >>,
                Some(IF instr[2] = Dot THEN project_root
                                       ELSE Join(project_root, instr[2])),
                << "Copy", instr[2] >>, EmptyStore)
      [] instr[1] = "Run" ->
            Arm(<< "RUN", instr[2] >>, None, << "Run" >>, EmptyStore)
      [] instr[1] = "Env" ->
            Arm(<< "ENV", instr[2], instr[3] >>, None, << "Env" >>,
                MapInsert(EmptyStore, instr[2], instr[3]))
      [] instr[1] = "Cmd" ->
            Arm(<< "CMD", instr[2] >>, None, << "Other" >>, EmptyStore)
      [] instr[1] = "Git" ->
            Arm(<< "GIT", instr[2], instr[3] >>, None, << "Other" >>, EmptyStore)
      [] OTHER ->
            Arm(instr[2], None, << "Other" >>, EmptyStore)

\* The Node pushed by iteration i (0-based) of the loop.
DagNode(i, instr, deps) ==
    LET m == MatchInstr(instr)
    IN  [ id |-> i,
          name |-> instr,
          content |-> m.content,
          kind |-> m.kind,
          hash |-> 0,
          dirty |-> FALSE,
          source_path |-> m.source_path,
          env |-> m.env,
          cache_hit |-> FALSE,
          deps |-> deps ]

\* A builder in which every node lists itself as its dependency.
build_graph_from_instructionsSelfDeps(instructions) ==
    [ i \in 1 .. Len(instructions) |-> DagNode(i - 1, instructions[i], << i - 1 >>) ]

\* build_graph_from_instructions: instruction i becomes node i, depending
\* on last_id, the node of the previous iteration.
build_graph_from_instructions(instructions) ==
    [ i \in 1 .. Len(instructions) |->
        DagNode(i - 1, instructions[i], IF i = 1 THEN << >> ELSE << i - 2 >>) ]

\* The key-computation pass that runs between graph construction and the
\* executor: it stores each node's content address and marks the nodes
\* whose key changed as dirty.  The key binds the content, so distinct
\* contents have distinct keys.
ComputeKeys(nodes, dirty) ==
    [ i \in 1 .. Len(nodes) |->
        [ nodes[i] EXCEPT !.hash = KeyOf(nodes[i].content), !.dirty = dirty[i] ] ]

Reverse(s) == [ i \in 1 .. Len(s) |-> s[Len(s) + 1 - i] ]

RECURSIVE dfs_topo(_, _, _), DfsDeps(_, _, _, _)

\* The `for &dep in &self.nodes[node].deps` loop of dfs_topo, from the j-th
\* dep on.  st is [visited, stack].
DfsDeps(nodes, deps, j, st) ==
    IF j > Len(deps) THEN st
    ELSE IF deps[j] < Len(nodes) /\ ~ st.visited[deps[j]]
         THEN DfsDeps(nodes, deps, j + 1, dfs_topo(nodes, deps[j], st))
         ELSE DfsDeps(nodes, deps, j + 1, st)

\* BuildGraph::dfs_topo
dfs_topo(nodes, node, st) ==
    LET st1 == [ st EXCEPT !.visited[node] = TRUE ]
        st2 == DfsDeps(nodes, NodeAt(nodes, node).deps, 1, st1)
    IN  [ st2 EXCEPT !.stack = Append(st2.stack, node) ]

RECURSIVE TopoLoopRevisits(_, _, _)

\* The loop of topological_order without its `if !visited[i]` test.
TopoLoopRevisits(nodes, i, st) ==
    IF i >= Len(nodes) THEN st
    ELSE TopoLoopRevisits(nodes, i + 1, dfs_topo(nodes, i, st))

RECURSIVE TopoLoop(_, _, _)

\* The `for i in 0..self.nodes.len()` loop of topological_order.
TopoLoop(nodes, i, st) ==
    IF i >= Len(nodes) THEN st
    ELSE IF ~ st.visited[i] THEN TopoLoop(nodes, i + 1, dfs_topo(nodes, i, st))
         ELSE TopoLoop(nodes, i + 1, st)

\* BuildGraph::topological_order
topological_order(nodes) ==
    LET st0 == [ visited |-> [ i \in 0 .. Len(nodes) - 1 |-> FALSE ], stack |-> << >> ]
    IN  Reverse(TopoLoop(nodes, 0, st0).stack)

\* The node ids the `for &node_id in &order` loop of execute_graph goes on
\* to process: those it does not skip with `node_id >= graph.nodes.len()`.
InRange(nodes, order) ==
    SelectSeq(order, LAMBDA node_id : node_id < Len(nodes))

\* ------------------------------------------------------------ recipe parser
\* A line is a sequence of characters, each a one-character string.  The
\* recipes studied are ASCII, so byte offsets and character offsets agree.
IsWhite(c) == c \in { " ", "\t" }

RECURSIVE TrimStart(_), TrimEnd(_)
TrimStart(s) ==
    IF s # << >> /\ IsWhite(Head(s)) THEN TrimStart(Tail(s)) ELSE s
TrimEnd(s) ==
    IF s # << >> /\ IsWhite(s[Len(s)]) THEN TrimEnd(SubSeq(s, 1, Len(s) - 1)) ELSE s

\* str::trim
trim(s) == TrimEnd(TrimStart(s))

RECURSIVE SplitWs(_, _, _)

\* str::split_whitespace, scanning s with the word in progress cur and the
\* words found so far acc.
SplitWs(s, cur, acc) ==
    IF s = << >> THEN ( IF cur = << >> THEN acc ELSE Append(acc, cur) )
    ELSE IF IsWhite(Head(s))
         THEN SplitWs(Tail(s), << >>, IF cur = << >> THEN acc ELSE Append(acc, cur))
         ELSE SplitWs(Tail(s), Append(cur, Head(s)), acc)

split_whitespace(s) == SplitWs(s, << >>, << >>)

\* char::to_uppercase on the letters the recipes use.
UpperOf ==
    [ c \in { "f", "r", "o", "m", "e", "n", "v", "l", "a", "b" } |->
        CASE c = "f" -> "F" [] c = "r" -> "R" [] c = "o" -> "O" [] c = "m" -> "M"
          [] c = "e" -> "E" [] c = "n" -> "N" [] c = "v" -> "V" [] c = "l" -> "L"
          [] c = "a" -> "A" [] c = "b" -> "B" ]

\* str::to_uppercase
to_uppercase(s) ==
    [ i \in 1 .. Len(s) |-> IF s[i] \in DOMAIN UpperOf THEN UpperOf[s[i]] ELSE s[i] ]

RECURSIVE FirstSep(_, _)

\* The position of the first ' ' or '=' of s at or after i, 0 when none.
FirstSep(s, i) ==
    IF i > Len(s) THEN 0
    ELSE IF s[i] \in { " ", "=" } THEN i
    ELSE FirstSep(s, i + 1)

\* args.splitn(2, |c| c == ' ' || c == '=').collect()
splitn2(args) ==
    LET p == FirstSep(args, 1)
    IN  IF p = 0 THEN << args >>
        ELSE << SubSeq(args, 1, p - 1), SubSeq(args, p + 1, Len(args)) >>

KwFrom == << "F", "R", "O", "M" >>
KwWorkdir == << "W", "O", "R", "K", "D", "I", "R" >>
KwCopy == << "C", "O", "P", "Y" >>
KwRun == << "R", "U", "N" >>
KwEnv == << "E", "N", "V" >>
KwCmd == << "C", "M", "D" >>
KwGit == << "G", "I", "T" >>

\* line[keyword.len()..].trim(), or "" when the line is the keyword alone.
ArgsOf(line, keyword) ==
    IF Len(line) > Len(keyword)
    THEN trim(SubSeq(line, Len(keyword) + 1, Len(line)))
    ELSE << >>

\* The body of the `for line in content.lines()` loop of parse_dockerfile:
\* the instructions the line pushes, none or one.
ParseLine(raw) ==
    LET line == trim(raw)
        parts == split_whitespace(line)
        keyword == to_uppercase(parts[1])
        args == ArgsOf(line, keyword)
        env_parts == splitn2(args)
    IN  IF line = << >> \/ Head(line) = "#" THEN << >>
        ELSE IF parts = << >> THEN << >>
        ELSE CASE keyword = KwFrom ->
                    IF Len(parts) >= 2 THEN << From(parts[2]) >> ELSE << >>
               [] keyword = KwWorkdir ->
                    IF Len(parts) >= 2 THEN << Workdir(parts[2]) >> ELSE << >>
               [] keyword = KwCopy ->
                    IF Len(parts) >= 3 THEN << Copy(parts[2], parts[3]) >> ELSE << >>
               [] keyword = KwRun -> << Run(args) >>
               [] keyword = KwEnv ->
                    IF Len(env_parts) = 2 THEN << Env(env_parts[1], env_parts[2]) >>
                    ELSE << >>
               [] keyword = KwCmd -> << Cmd(args) >>
               [] keyword = KwGit ->
                    IF Len(parts) >= 3 THEN << Git(parts[2], parts[3]) >>
                    ELSE IF Len(parts) = 2 THEN << Git(parts[2], << "." >>) >>
                    ELSE << >>
               [] OTHER -> << Other(line) >>

RECURSIVE parse_dockerfile(_)

\* parse_dockerfile.  content is the sequence content.lines() yields.
parse_dockerfile(content) ==
    IF content = << >> THEN << >>
    ELSE ParseLine(Head(content)) \o parse_dockerfile(Tail(content))

\* --------------------------------------------------------------- executor
\* One iteration of the `for &node_id in &order` loop of execute_graph.
\* Returns the graph and cache it leaves, ok = FALSE when the iteration
\* returns the error out of execute_graph, and rec, what the iteration did:
\* the probe's outcome, whether an artifact was produced, and the outcome
\* of put_artifact ("none" when it was not called).
IterRec(node_id, key, probe, built, put, ops) ==
    [ node |-> node_id, key |-> key, probe |-> probe, built |-> built,
      put |-> put, ops |-> ops ]

\* A hit branch that forgets to set cache_hit.
MarkHitKeepsFlag(nodes, node_id) ==
    [ nodes EXCEPT ![node_id + 1].dirty = FALSE ]

\* The hit branch: dirty = false, cache_hit = true.
MarkHit(nodes, node_id) ==
    [ nodes EXCEPT ![node_id + 1].dirty = FALSE, ![node_id + 1].cache_hit = TRUE ]

\* After a rebuild whose put_artifact returned Ok: dirty = false,
\* cache_hit = false.
MarkBuilt(nodes, node_id) ==
    [ nodes EXCEPT ![node_id + 1].dirty = FALSE, ![node_id + 1].cache_hit = FALSE ]

ExecNode(nodes, hc, node_id, fault) ==
    LET node == NodeAt(nodes, node_id)
        g == HybridGet(hc, node.hash, fault)
        artifact_data == ArtifactData(node.content)
        p == HybridPut(g.hc, node.hash, artifact_data, fault)
    IN  IF node_id >= Len(nodes)
        THEN [ ok |-> TRUE, nodes |-> nodes, hc |-> hc,
               rec |-> IterRec(node_id, 0, "skip", FALSE, "none", << >>) ]
        ELSE IF ~ g.ok
        THEN [ ok |-> FALSE, nodes |-> nodes, hc |-> g.hc,
               rec |-> IterRec(node_id, node.hash, "err", FALSE, "none", g.ops) ]
        ELSE IF g.val # None
        THEN [ ok |-> TRUE, nodes |-> MarkHit(nodes, node_id), hc |-> g.hc,
               rec |-> IterRec(node_id, node.hash, "hit", FALSE, "none", g.ops) ]
        ELSE IF node.dirty
        THEN IF ~ p.ok
             THEN [ ok |-> FALSE, nodes |-> nodes, hc |-> p.hc,
                    rec |-> IterRec(node_id, node.hash, "miss", TRUE, "err",
                                    g.ops \o p.ops) ]
             ELSE [ ok |-> TRUE, nodes |-> MarkBuilt(nodes, node_id), hc |-> p.hc,
                    rec |-> IterRec(node_id, node.hash, "miss", TRUE, "ok",
                                    g.ops \o p.ops) ]
        ELSE [ ok |-> TRUE, nodes |-> nodes, hc |-> g.hc,
               rec |-> IterRec(node_id, node.hash, "miss", FALSE, "none", g.ops) ]

\* ------------------------------------------------------------------ state
VARIABLES
    store,      \* LocalCache.store, the in-memory index of this process
    index,      \* index.json on disk
    blobs,      \* the <key>.bin files on disk: key -> Option<bytes>
    remote,     \* the remote tier: key -> Option<bytes>
    hasRemote,  \* HybridCache.remote is Some
    nodes,      \* BuildGraph.nodes of the build in progress
    order,      \* execute_graph's `order`
    pos,        \* position of the loop in `order` (1-based)
    pc,         \* "idle", "running", or how execute_graph returned: "ok", "err"
    trace,      \* what each finished iteration of this run did
    builds,     \* number of execute_graph runs started
    prev,       \* the previous run: its result, node hashes and sync failures
    last,       \* the most recent direct call on the cache and its result
    calls,      \* number of direct calls made
    faults,     \* number of I/O calls that have failed so far
    lastPut,    \* key -> data of the most recent LocalCache::put for the key
    putsOk,     \* every LocalCache::put so far returned Ok
    populated,  \* key -> bytes a remote hit of get_artifact returned for it
    storeB,     \* LocalCache.store of a second instance on the same root
    hist,       \* the calls made on the two instances, in order
    storage,    \* the server's blob store: key -> Option<bytes>
    metadata,   \* the server's metadata index: key -> Option<row>
    inflight,   \* PUT requests between their blob-store and metadata steps
    resp,       \* the most recent response the server sent
    putlog,     \* key -> the PUT request received last for it, and its status
    acked,      \* key -> the bodies of the PUT requests answered 201
    nput,       \* number of PUT requests received
    input,      \* the arguments of the function under study
    output      \* its result, None before the call

vars == << store, index, blobs, remote, hasRemote, nodes, order, pos, pc, trace,
           builds, prev, last, calls, faults, lastPut, putsOk, populated,
           storeB, hist, storage, metadata, inflight, resp, putlog, acked, nput,
           input, output >>

buildVars == << nodes, order, pos, pc, trace, builds, prev >>
callVars == << last, calls, lastPut, putsOk, populated >>
twoVars == << storeB, hist >>
serverVars == << storage, metadata, inflight, resp, putlog, acked, nput >>
fnVars == << input, output >>
extVars == << twoVars, serverVars, fnVars >>
cacheVars == << store, index, blobs, remote, hasRemote, faults >>
sysVars == << cacheVars, buildVars, callVars, twoVars, serverVars >>

LC == [ store |-> store, index |-> index, blobs |-> blobs ]
HC == [ lc |-> LC, remote |-> remote, hasRemote |-> hasRemote ]

SetCache(hc) ==
    /\ store' = hc.lc.store
    /\ index' = hc.lc.index
    /\ blobs' = hc.lc.blobs
    /\ remote' = hc.remote

NoCall == [ op |-> "none", key |-> 0, data |-> None, fault |-> "none",
            ok |-> TRUE, val |-> None,
            pre |-> [ local |-> None, remote |-> None, hasRemote |-> FALSE ],
            ops |-> << >> ]
NoPrev == [ result |-> "none", hashes |-> << >>, syncFailed |-> {} ]

\* The faults the environment may still inject, and the count after a call
\* that was offered `fault` and returned ok.
FaultsLeft == IF faults < MaxFaults THEN Faults ELSE { "none" }
Fired(ops) == \E i \in 1 .. Len(ops) : ~ ops[i].ok

\* A fresh machine: an empty cache directory, and a remote tier that other
\* machines may have filled already.
CacheInit ==
    /\ store = EmptyStore
    /\ index = IndexMissing
    /\ blobs = [ k \in Keys |-> None ]
    /\ remote = [ k \in Keys |-> None ]
    /\ hasRemote \in BOOLEAN
    /\ nodes = << >>
    /\ order = << >>
    /\ pos = 1
    /\ pc = "idle"
    /\ trace = << >>
    /\ builds = 0
    /\ prev = NoPrev
    /\ last = NoCall
    /\ calls = 0
    /\ faults = 0
    /\ lastPut = [ k \in Keys |-> None ]
    /\ putsOk = TRUE
    /\ populated = [ k \in Keys |-> None ]

\* A second LocalCache instance opened on the same, still empty, root.
TwoInit ==
    /\ storeB = EmptyStore
    /\ hist = << >>

NoResp == [ method |-> "none", key |-> 0, status |-> 0, body |-> None,
            fault |-> "none", seen |-> None ]

\* A server started on an empty data directory.
ServerInit ==
    /\ storage = [ k \in Keys |-> None ]
    /\ metadata = [ k \in Keys |-> None ]
    /\ inflight = { }
    /\ resp = NoResp
    /\ putlog = [ k \in Keys |-> None ]
    /\ acked = [ k \in Keys |-> { } ]
    /\ nput = 0

FnIdle ==
    /\ input = None
    /\ output = None

\* Nothing but the function under study runs.
SysIdle ==
    /\ CacheInit
    /\ ~ hasRemote
    /\ TwoInit
    /\ ServerInit

Init ==
    /\ CacheInit
    /\ TwoInit
    /\ ServerInit
    /\ FnIdle

Hashes(ns) == [ i \in 1 .. Len(ns) |-> ns[i].hash ]

\* The keys whose put_artifact wrote the local tier and then failed on the
\* remote one, in the iterations of t.
SyncFailed(t) ==
    { t[i].key : i \in { j \in 1 .. Len(t) :
        /\ t[j].put = "err"
        /\ \E a, b \in 1 .. Len(t[j].ops) :
              /\ t[j].ops[a] = Op("local_put", t[j].key, TRUE)
              /\ t[j].ops[b] = Op("remote_put", t[j].key, FALSE) } }

\* A build starts: the recipe is parsed into a graph, keys are computed, and
\* execute_graph takes the topological order.  reopen: the build runs in a
\* new process, whose HybridCache::new loads index.json.
StartBuild ==
    /\ pc \in { "idle", "ok", "err" }
    /\ builds < MaxBuilds
    /\ \E n \in 0 .. MaxNodes :
       \E instructions \in [ 1 .. n -> { Run(k) : k \in Keys } ],
          dirty \in [ 1 .. n -> BOOLEAN ] :
          /\ nodes' = ComputeKeys(build_graph_from_instructions(instructions), dirty)
          /\ order' = topological_order(nodes')
          /\ pc' = IF n = 0 THEN "ok" ELSE "running"
    /\ \E reopen \in BOOLEAN :
          IF reopen
          THEN /\ load_index(index).ok
               /\ store' = load_index(index).store
               /\ hasRemote' \in BOOLEAN
          ELSE UNCHANGED << store, hasRemote >>
    /\ pos' = 1
    /\ trace' = << >>
    /\ builds' = builds + 1
    /\ prev' = IF pc = "idle" THEN NoPrev
               ELSE [ result |-> pc, hashes |-> Hashes(nodes),
                      syncFailed |-> SyncFailed(trace) ]
    /\ UNCHANGED << index, blobs, remote, faults >>
    /\ UNCHANGED callVars
    /\ UNCHANGED extVars

\* execute_graph processes order[pos]; after the last node it returns Ok.
ExecStep ==
    /\ pc = "running"
    /\ \E fault \in FaultsLeft :
          LET r == ExecNode(nodes, HC, order[pos], fault)
          IN  /\ SetCache(r.hc)
              /\ faults' = IF Fired(r.rec.ops) THEN faults + 1 ELSE faults
              /\ nodes' = r.nodes
              /\ trace' = Append(trace, r.rec)
              /\ pc' = IF ~ r.ok THEN "err"
                       ELSE IF pos = Len(order) THEN "ok" ELSE "running"
              /\ pos' = IF r.ok THEN pos + 1 ELSE pos
    /\ UNCHANGED << hasRemote, order, builds, prev >>
    /\ UNCHANGED callVars
    /\ UNCHANGED extVars

\* Another machine uploads a blob for a key to the shared remote tier.
RemoteUpload ==
    /\ \E k \in Keys : \E d \in BlobsFor(k) :
          /\ remote[k] # Some(d)
          /\ remote' = [ remote EXCEPT ![k] = Some(d) ]
    /\ UNCHANGED << store, index, blobs, hasRemote, faults >>
    /\ UNCHANGED buildVars
    /\ UNCHANGED callVars
    /\ UNCHANGED extVars

Next ==
    \/ StartBuild
    \/ ExecStep
    \/ RemoteUpload

Spec == Init /\ [][Next]_vars

\* ------------------------------------------- direct calls on the cache API
\* A client (a test, the CLI) calls the cache directly.  last records the
\* call: its arguments, the I/O failure it met (fault), what the two
\* tiers held for the key before the call (pre), the I/O calls made (ops)
\* and the result.
PreOf(key) ==
    IF key \in Keys
    THEN [ local |-> get_data(LC, key, "none").val, remote |-> remote[key],
           hasRemote |-> hasRemote ]
    ELSE [ local |-> None, remote |-> None, hasRemote |-> hasRemote ]

Call(name, key, data, fault, ok, val, ops) ==
    [ op |-> name, key |-> key, data |-> data,
      fault |-> IF Fired(ops) THEN fault ELSE "none",
      ok |-> ok, val |-> val, pre |-> PreOf(key), ops |-> ops ]

CountFault(ops) == faults' = IF Fired(ops) THEN faults + 1 ELSE faults

\* hybrid.get_artifact(k)
CallGetArtifact ==
    /\ pc = "idle"
    /\ calls < MaxCalls
    /\ \E k \in Keys, fault \in FaultsLeft :
          LET r == HybridGet(HC, k, fault)
              put == HasOp(r.ops, "local_put")
          IN  /\ SetCache(r.hc)
              /\ CountFault(r.ops)
              /\ last' = Call("get_artifact", k, None, fault, r.ok, r.val, r.ops)
              /\ lastPut' = IF put THEN [ lastPut EXCEPT ![k] = remote[k] ] ELSE lastPut
              /\ putsOk' = ( putsOk /\ (put => OpOk(r.ops, "local_put")) )
              /\ populated' = IF put THEN [ populated EXCEPT ![k] = r.val ] ELSE populated
    /\ calls' = calls + 1
    /\ UNCHANGED hasRemote
    /\ UNCHANGED buildVars
    /\ UNCHANGED extVars

\* hybrid.put_artifact(k, d)
CallPutArtifact ==
    /\ pc = "idle"
    /\ calls < MaxCalls
    /\ \E k \in Keys, fault \in FaultsLeft : \E d \in BlobsFor(k) :
          LET r == HybridPut(HC, k, d, fault)
          IN  /\ SetCache(r.hc)
              /\ CountFault(r.ops)
              /\ last' = Call("put_artifact", k, Some(d), fault, r.ok, None, r.ops)
              /\ lastPut' = [ lastPut EXCEPT ![k] = Some(d) ]
              /\ putsOk' = ( putsOk /\ OpOk(r.ops, "local_put") )
              /\ populated' = [ populated EXCEPT ![k] = None ]
    /\ calls' = calls + 1
    /\ UNCHANGED hasRemote
    /\ UNCHANGED buildVars
    /\ UNCHANGED extVars

\* hybrid.local.put(k, d)
CallLocalPut ==
    /\ pc = "idle"
    /\ calls < MaxCalls
    /\ \E k \in Keys, fault \in FaultsLeft : \E d \in BlobsFor(k) :
          LET r == LocalPut(LC, k, d, fault)
              ops == << Op("local_put", k, r.ok) >>
          IN  /\ SetCache([ HC EXCEPT !.lc = r.lc ])
              /\ CountFault(ops)
              /\ last' = Call("put", k, Some(d), fault, r.ok, None, ops)
              /\ lastPut' = [ lastPut EXCEPT ![k] = Some(d) ]
              /\ putsOk' = ( putsOk /\ r.ok )
              /\ populated' = [ populated EXCEPT ![k] = None ]
    /\ calls' = calls + 1
    /\ UNCHANGED hasRemote
    /\ UNCHANGED buildVars
    /\ UNCHANGED extVars

\* hybrid.local.get_data(k)
CallGetData ==
    /\ pc = "idle"
    /\ calls < MaxCalls
    /\ \E k \in Keys, fault \in FaultsLeft :
          LET r == get_data(LC, k, fault)
              ops == << Op("local_get", k, r.ok) >>
          IN  /\ CountFault(ops)
              /\ last' = Call("get_data", k, None, fault, r.ok, r.val, ops)
    /\ calls' = calls + 1
    /\ UNCHANGED << store, index, blobs, remote, hasRemote >>
    /\ UNCHANGED << lastPut, putsOk, populated >>
    /\ UNCHANGED buildVars
    /\ UNCHANGED extVars

\* A new process opens the cache: HybridCache::new, LocalCache::new.
Reopen ==
    /\ pc = "idle"
    /\ last.op # "reopen"
    /\ load_index(index).ok
    /\ store' = load_index(index).store
    /\ hasRemote' \in BOOLEAN
    /\ last' = Call("reopen", 0, None, "none", TRUE, None, << >>)
    /\ populated' = [ k \in Keys |-> None ]
    /\ UNCHANGED << index, blobs, remote, calls, faults, lastPut, putsOk >>
    /\ UNCHANGED buildVars
    /\ UNCHANGED extVars

\* The remote is taken away from a live cache: hybrid.remote = None.
DetachRemote ==
    /\ pc = "idle"
    /\ hasRemote
    /\ hasRemote' = FALSE
    /\ UNCHANGED << store, index, blobs, remote, faults >>
    /\ UNCHANGED callVars
    /\ UNCHANGED buildVars
    /\ UNCHANGED extVars

NextCache ==
    \/ CallGetArtifact
    \/ CallPutArtifact
    \/ CallLocalPut
    \/ CallGetData
    \/ Reopen
    \/ DetachRemote
    \/ (pc = "idle" /\ builds = 0 /\ RemoteUpload)

SpecCache == Init /\ [][NextCache]_vars

\* ------------------------------- two LocalCache instances on one cache root
\* Two builds run at once on the same cache directory.  Instance "A" is the
\* LocalCache whose index is `store`, instance "B" the one whose index is
\* storeB; index.json and the blob files are shared.
Instances == { "A", "B" }
StoreOf(inst) == IF inst = "A" THEN store ELSE storeB
LCOf(inst) == [ store |-> StoreOf(inst), index |-> index, blobs |-> blobs ]

SetStore(inst, st) ==
    IF inst = "A" THEN store' = st /\ UNCHANGED storeB
                  ELSE storeB' = st /\ UNCHANGED store

\* One entry of hist.  seen is the key set of the instance's in-memory
\* index when the call began.
TwoCall(inst, name, key, data, ok) ==
    [ inst |-> inst, op |-> name, key |-> key, data |-> data, ok |-> ok,
      seen |-> DOMAIN StoreOf(inst) ]

\* instance.put(k, d)
TwoPut ==
    /\ pc = "idle"
    /\ Len(hist) < MaxCalls
    /\ \E inst \in Instances, k \in Keys, fault \in FaultsLeft \ RemoteFaults :
       \E d \in BlobsFor(k) :
          LET r == LocalPut(LCOf(inst), k, d, fault)
          IN  /\ SetStore(inst, r.lc.store)
              /\ index' = r.lc.index
              /\ blobs' = r.lc.blobs
              /\ faults' = IF r.ok THEN faults ELSE faults + 1
              /\ hist' = Append(hist, TwoCall(inst, "put", k, Some(d), r.ok))
    /\ UNCHANGED << remote, hasRemote >>
    /\ UNCHANGED << buildVars, callVars, serverVars, fnVars >>

\* LocalCache::new(root) in one of the two processes: the instance is
\* created again and loads the index.json then on disk.
TwoOpen ==
    /\ pc = "idle"
    /\ Len(hist) < MaxCalls
    /\ \E inst \in Instances :
          /\ load_index(index).ok
          /\ SetStore(inst, load_index(index).store)
          /\ hist' = Append(hist, TwoCall(inst, "open", 0, None, TRUE))
    /\ UNCHANGED << index, blobs, remote, hasRemote, faults >>
    /\ UNCHANGED << buildVars, callVars, serverVars, fnVars >>

NextTwo ==
    \/ TwoPut
    \/ TwoOpen

SpecTwo == Init /\ [][NextTwo]_vars

\* ------------------------------------------------- the remote cache server
\* The handlers run on a multi-threaded runtime: HEAD and GET make one call
\* on the state, PUT makes two, and other requests run between them.
ServerFaultsLeft == IF faults < MaxFaults THEN { "none" } \cup ServerFaults ELSE { "none" }

Response(method, key, status, body, fault) ==
    [ method |-> method, key |-> key, status |-> status, body |-> body,
      fault |-> IF status = INTERNAL_SERVER_ERROR THEN fault ELSE "none",
      seen |-> putlog[key] ]

PutEntry(n, body, status) == Some([ n |-> n, body |-> body, status |-> status ])

\* A PUT request arrives and its handler stores the blob.
ServePutStore ==
    /\ nput < MaxPuts
    /\ \E k \in Keys, fault \in ServerFaultsLeft \cap { "none", "storage_put" } :
       \E b \in BlobsFor(k) :
          LET r == put_artifact_store(storage, k, b, fault)
              n == nput + 1
          IN  /\ storage' = r.storage
              /\ nput' = n
              /\ IF r.done
                 THEN /\ resp' = Response("PUT", k, r.status, None, fault)
                      /\ putlog' = [ putlog EXCEPT ![k] = PutEntry(n, b, r.status) ]
                      /\ faults' = faults + 1
                      /\ UNCHANGED inflight
                 ELSE /\ inflight' = inflight \cup
                            { [ n |-> n, key |-> k, body |-> b,
                                path |-> r.path, size |-> r.size ] }
                      /\ putlog' = [ putlog EXCEPT ![k] = PutEntry(n, b, 0) ]
                      /\ UNCHANGED << resp, faults >>
    /\ UNCHANGED << metadata, acked >>
    /\ UNCHANGED << store, index, blobs, remote, hasRemote >>
    /\ UNCHANGED << buildVars, callVars, twoVars, fnVars >>

\* The handler of a PUT in flight updates the metadata and answers.
ServePutMetadata ==
    /\ \E req \in inflight, fault \in ServerFaultsLeft \cap { "none", "metadata_insert" } :
          LET r == put_artifact_metadata(metadata, req.key, req.path, req.size, fault)
              k == req.key
          IN  /\ metadata' = r.metadata
              /\ inflight' = inflight \ { req }
              /\ resp' = Response("PUT", k, r.status, None, fault)
              /\ putlog' = IF putlog[k][1].n = req.n
                            THEN [ putlog EXCEPT ![k] = PutEntry(req.n, req.body, r.status) ]
                            ELSE putlog
              /\ acked' = IF r.status = CREATED
                           THEN [ acked EXCEPT ![k] = @ \cup { req.body } ]
                           ELSE acked
              /\ faults' = IF r.status = CREATED THEN faults ELSE faults + 1
    /\ UNCHANGED << storage, nput >>
    /\ UNCHANGED << store, index, blobs, remote, hasRemote >>
    /\ UNCHANGED << buildVars, callVars, twoVars, fnVars >>

ServeHead ==
    /\ \E k \in Keys, fault \in ServerFaultsLeft \cap { "none", "metadata_exists" } :
          LET status == check_cache(metadata, k, fault)
          IN  /\ resp' = Response("HEAD", k, status, None, fault)
              /\ faults' = IF status = INTERNAL_SERVER_ERROR THEN faults + 1 ELSE faults
    /\ UNCHANGED << storage, metadata, inflight, putlog, acked, nput >>
    /\ UNCHANGED << store, index, blobs, remote, hasRemote >>
    /\ UNCHANGED << buildVars, callVars, twoVars, fnVars >>

ServeGet ==
    /\ \E k \in Keys, fault \in ServerFaultsLeft \cap { "none", "storage_get" } :
          LET r == get_artifact(storage, k, fault)
          IN  /\ resp' = Response("GET", k, r.status, r.body, fault)
              /\ faults' = IF r.status = INTERNAL_SERVER_ERROR THEN faults + 1 ELSE faults
    /\ UNCHANGED << storage, metadata, inflight, putlog, acked, nput >>
    /\ UNCHANGED << store, index, blobs, remote, hasRemote >>
    /\ UNCHANGED << buildVars, callVars, twoVars, fnVars >>

NextServer ==
    \/ ServePutStore
    \/ ServePutMetadata
    \/ ServeHead
    \/ ServeGet

InitServer ==
    /\ SysIdle
    /\ FnIdle

SpecServer == InitServer /\ [][NextServer]_vars

\* ------------------------------------------------------- calculate_backoff
\* The retry loop of a client calls calculate_backoff(attempt, config) and
\* the generator makes its draw.
BackoffConfigs == { DefaultRetryConfig, RetryConfig(5, 250, 1000, << 3, 2 >>) }

BackoffInputs ==
    [ fn : { "calculate_backoff" }, attempt : 0 .. MaxAttempt,
      config : BackoffConfigs, draw : 0 .. JitterSteps - 1 ]

InitBackoff ==
    /\ SysIdle
    /\ input \in { Some(x) : x \in BackoffInputs }
    /\ output = None

CallBackoff ==
    /\ output = None
    /\ output' = Some(calculate_backoff(input[1].attempt, input[1].config, input[1].draw))
    /\ UNCHANGED input
    /\ UNCHANGED sysVars

SpecBackoff == InitBackoff /\ [][CallBackoff]_vars

\* ------------------------------------------- build_graph_from_instructions
\* The instruction lists handed to the graph builder: every variant of
\* Instruction, COPY from "." and from a sub-path, and ENV instructions that
\* set two keys to two values.
DagInstructions ==
    { From(1), Workdir(1), Copy(Dot, 1), Copy(1, 1), Run(1), Cmd(1), Git(1, 1),
      Other(<< "LABEL", 1 >>) }
       \cup { Env(k, v) : k \in 1 .. 2, v \in 1 .. 2 }

DagInputs ==
    UNION { [ 1 .. n -> DagInstructions ] : n \in 0 .. MaxInstr }

InitDag ==
    /\ SysIdle
    /\ input \in { Some([ fn |-> "build_graph_from_instructions", instructions |-> q ]) :
                       q \in DagInputs }
    /\ output = None

CallBuildGraph ==
    /\ output = None
    /\ output' = Some(build_graph_from_instructions(input[1].instructions))
    /\ UNCHANGED input
    /\ UNCHANGED sysVars

SpecDag == InitDag /\ [][CallBuildGraph]_vars

\* ------------------------------------------------------------------ hash_dir
\* The orderings of a finite set.
Perms(S) ==
    { f \in [ 1 .. Cardinality(S) -> S ] :
        \A i, j \in 1 .. Cardinality(S) : i # j => f[i] # f[j] }

\* A directory (a set of files with contents), the order in which
\* walk_dir returns the files, and the order in which the parallel
\* per-file hashes complete.
HashDirInputs ==
    UNION { [ fn : { "hash_dir" }, files : Perms(dir),
              contents : [ dir -> Contents ],
              completion : Perms(1 .. Cardinality(dir)) ] : dir \in SUBSET Paths }

InitHashDir ==
    /\ SysIdle
    /\ input \in { Some(x) : x \in HashDirInputs }
    /\ output = None

CallHashDir ==
    /\ output = None
    /\ output' = Some(hash_dir(input[1].files, input[1].contents, input[1].completion))
    /\ UNCHANGED input
    /\ UNCHANGED sysVars

SpecHashDir == InitHashDir /\ [][CallHashDir]_vars


\* ------------------------------------------------------- EnvFingerprint::hash
\* Two hosts (or one host at two times) compute their fingerprints.
FpNames == { << 1 >>, << 1, 1 >> }
FpMaps ==
    UNION { [ d -> { << 2 >> } ] : d \in SUBSET { << 1 >>, << 1, 2 >> } }
Fingerprints ==
    { EnvFingerprint(e, t, o, a) : e \in FpMaps, t \in FpMaps, o \in FpNames, a \in FpNames }

InitFingerprint ==
    /\ SysIdle
    /\ input \in { Some([ fn |-> "EnvFingerprint::hash", a |-> x, b |-> y ]) :
                     x \in Fingerprints, y \in Fingerprints }
    /\ output = None

CallFingerprint ==
    /\ output = None
    /\ output' = Some([ a |-> EnvFingerprint_hash(input[1].a),
                        b |-> EnvFingerprint_hash(input[1].b) ])
    /\ UNCHANGED input
    /\ UNCHANGED sysVars

SpecFingerprint == InitFingerprint /\ [][CallFingerprint]_vars


\* --------------------------------------------------------------- node keys
\* The key computer computes the keys of two nodes.  Hashes are digests of
\* one fixed length.
KeyHashes == { << 1, 1 >>, << 2, 2 >> }
KeyEnvs ==
    { EmptyStore,
      MapInsert(EmptyStore, << 1 >>, << 2 >>),
      MapInsert(EmptyStore, << 1 >>, << 2, 2 >>),
      MapInsert(EmptyStore, << 1, 2 >>, << 2 >>) }
KeyInputs ==
    { KeyInput(p, c, t, e, f) :
        p \in { << >> } \cup { << h >> : h \in KeyHashes },
        c \in { << 1 >>, << 1, 2 >> },
        t \in { << >> } \cup KeyHashes,
        e \in KeyEnvs,
        f \in KeyHashes }

InitKey ==
    /\ SysIdle
    /\ input \in { Some([ fn |-> "compute_key", a |-> x, b |-> y ]) :
                     x \in KeyInputs, y \in KeyInputs }
    /\ output = None

CallComputeKey ==
    /\ output = None
    /\ output' = Some([ a |-> compute_key(input[1].a), b |-> compute_key(input[1].b) ])
    /\ UNCHANGED input
    /\ UNCHANGED sysVars

SpecKey == InitKey /\ [][CallComputeKey]_vars


\* ------------------------------------------------------------ parse_dockerfile
\* The recipe lines studied: blank lines, comments, each keyword alone and
\* with one or two arguments, every way of writing an ENV argument, a
\* lower-case keyword, an unknown keyword and surrounding whitespace.
RecipeLines ==
    {
      << >>,
      << " ", " " >>,
      << "#", " ", "a" >>,
      << " ", "#", "a" >>,
      << "F", "R", "O", "M" >>,
      << "F", "R", "O", "M", " ", "a" >>,
      << "f", "r", "o", "m", " ", "a" >>,
      << "W", "O", "R", "K", "D", "I", "R" >>,
      << "W", "O", "R", "K", "D", "I", "R", " ", "a" >>,
      << "C", "O", "P", "Y", " ", "a" >>,
      << "C", "O", "P", "Y", " ", "a", " ", "b" >>,
      << "R", "U", "N" >>,
      << "R", "U", "N", " ", "a", " ", "b" >>,
      << "E", "N", "V" >>,
      << "E", "N", "V", " ", "a" >>,
      << "E", "N", "V", " ", "a", "=", "b" >>,
      << "E", "N", "V", " ", "a", " ", "b" >>,
      << "E", "N", "V", " ", "a", "=" >>,
      << "E", "N", "V", " ", "=", "b" >>,
      << "C", "M", "D", " ", "a", " ", "b" >>,
      << "G", "I", "T" >>,
      << "G", "I", "T", " ", "a" >>,
      << "G", "I", "T", " ", "a", " ", "b" >>,
      << "L", "A", "B", "E", "L", " ", "a" >>,
      << " ", "l", "a", "b", "e", "l", " ", " ", "a", " " >>
    }

Recipes == UNION { [ 1 .. n -> RecipeLines ] : n \in 0 .. MaxLines }

InitParser ==
    /\ SysIdle
    /\ input \in { Some([ fn |-> "parse_dockerfile", content |-> c ]) : c \in Recipes }
    /\ output = None

CallParse ==
    /\ input # None /\ input[1].fn = "parse_dockerfile"
    /\ output = None
    /\ output' = Some(parse_dockerfile(input[1].content))
    /\ UNCHANGED input
    /\ UNCHANGED sysVars

SpecParser == InitParser /\ [][CallParse]_vars


\* ------------------------------------------ a cache root left by earlier runs
\* A process starts on a cache root that earlier processes, crashes, disk
\* faults and clean-ups have left: index.json is missing, damaged or names any
\* entries, and each blob file is there or not.  The process opens the cache
\* (LocalCache::new) and, when that returns Ok, calls put and get_data.
DiskStores ==
    UNION { { m \in [ d -> UNION { { CacheEntry(k, b) : b \in BlobsFor(k) } : k \in Keys } ] :
                \A k \in d : m[k].cache_key = k } : d \in SUBSET Keys }

DiskBlobs ==
    { f \in [ Keys -> { None } \cup { Some(b) : b \in UNION { BlobsFor(k) : k \in Keys } } ] :
        \A k \in Keys : f[k] = None \/ f[k][1] \in BlobsFor(k) }

InitDisk ==
    /\ store = EmptyStore
    /\ index \in { IndexMissing, IndexCorrupt, IndexBinary } \cup
                 { IndexJson(m) : m \in DiskStores }
    /\ blobs \in DiskBlobs
    /\ remote = [ k \in Keys |-> None ]
    /\ hasRemote = FALSE
    /\ nodes = << >>
    /\ order = << >>
    /\ pos = 1
    /\ pc = "start"
    /\ trace = << >>
    /\ builds = 0
    /\ prev = NoPrev
    /\ last = NoCall
    /\ calls = 0
    /\ faults = 0
    /\ lastPut = [ k \in Keys |-> None ]
    /\ putsOk = TRUE
    /\ populated = [ k \in Keys |-> None ]
    /\ TwoInit
    /\ ServerInit
    /\ FnIdle

\* LocalCache::new: Ok(Self { store: load_index(..)? }) or the error of
\* load_index, on which the process has no cache and stops.
Open ==
    /\ pc = "start"
    /\ LET r == load_index(index)
       IN  /\ store' = r.store
           /\ pc' = IF r.ok THEN "idle" ELSE "failed"
           /\ last' = Call("new", 0, None, "none", r.ok, None, << >>)
    /\ UNCHANGED << index, blobs, remote, hasRemote, faults >>
    /\ UNCHANGED << nodes, order, pos, trace, builds, prev >>
    /\ UNCHANGED << calls, lastPut, putsOk, populated >>
    /\ UNCHANGED extVars

NextDisk ==
    \/ Open
    \/ CallLocalPut
    \/ CallGetData

SpecDisk == InitDisk /\ [][NextDisk]_vars


\* ---------------------------------------------------------------- is_retryable
Msgs == 1 .. NumMsgs

Errors ==
    { NetworkError(m, r, a) : m \in Msgs, r \in BOOLEAN, a \in 0 .. MaxAttempt }
    \cup { CASIntegrityFailure(e, a, n) : e \in Msgs, a \in Msgs, n \in 0 .. 1 }
    \cup { StorageError(o, r) : o \in Msgs, r \in Msgs }
    \cup { CacheCoherencyError(h, r) : h \in Msgs, r \in Msgs }
    \cup { SyncError(m, r) : m \in Msgs, r \in BOOLEAN }
    \cup { MetadataError(o, r) : o \in Msgs, r \in Msgs }
    \cup { ConstraintViolation(r) : r \in Msgs }
    \cup { OtherError(e) : e \in Msgs }

InitRetryable ==
    /\ SysIdle
    /\ input \in { Some([ fn |-> "is_retryable", err |-> e ]) : e \in Errors }
    /\ output = None

CallIsRetryable ==
    /\ input # None /\ input[1].fn = "is_retryable"
    /\ output = None
    /\ output' = Some(is_retryable(input[1].err))
    /\ UNCHANGED input
    /\ UNCHANGED sysVars

SpecRetryable == InitRetryable /\ [][CallIsRetryable]_vars


\* ------------------------------------------------------------ topological_order
\* Graphs of up to MaxTopoNodes nodes whose deps are any lists of up to
\* MaxDeps ids, each the id of a node (itself included, cycles included) or
\* the id n, outside the node list.
DepLists(n) == UNION { [ 1 .. m -> 0 .. n ] : m \in 0 .. MaxDeps }

TopoGraphs ==
    UNION { { [ i \in 1 .. n |-> [ id |-> i - 1, deps |-> d[i] ] ] :
                d \in [ 1 .. n -> DepLists(n) ] } : n \in 0 .. MaxTopoNodes }

InitTopo ==
    /\ SysIdle
    /\ input \in { Some([ fn |-> "topological_order", nodes |-> g ]) : g \in TopoGraphs }
    /\ output = None

CallTopologicalOrder ==
    /\ input # None /\ input[1].fn = "topological_order"
    /\ output = None
    /\ LET sorted == topological_order(input[1].nodes)
       IN  output' = Some([ order |-> sorted,
                            processed |-> InRange(input[1].nodes, sorted) ])
    /\ UNCHANGED input
    /\ UNCHANGED sysVars

SpecTopo == InitTopo /\ [][CallTopologicalOrder]_vars


\* ------------------------------------------------------- a crash inside put
\* One LocalCache instance on a fresh cache root serves put and get_data
\* calls; the process may die inside a put: while fs::write fills the blob
\* file, after the blob is written (before or after the in-memory insert,
\* which dies with the process), or while save_index rewrites index.json.
CrashPoints == { "in_blob_write", "after_blob_write", "in_index_write" }

PutCrash ==
    /\ pc = "idle"
    /\ calls < MaxCalls
    /\ \E k \in Keys, point \in CrashPoints : \E d \in BlobsFor(k) :
          LET store1 == MapInsert(store, k, CacheEntry(k, d))
          IN  /\ blobs' = IF point = "in_blob_write"
                          THEN WriteBlob(blobs, k, d, "blob_partial").blobs
                          ELSE WriteBlob(blobs, k, d, "none").blobs
              /\ index' = IF point = "in_index_write"
                          THEN save_index(store1, index, "index_partial").file
                          ELSE index
              /\ last' = Call("crash", k, Some(d), "none", FALSE, None, << >>)
    /\ store' = EmptyStore
    /\ pc' = "crashed"
    /\ calls' = calls + 1
    /\ UNCHANGED << remote, hasRemote, faults >>
    /\ UNCHANGED << nodes, order, pos, trace, builds, prev >>
    /\ UNCHANGED << lastPut, putsOk, populated >>
    /\ UNCHANGED extVars

NextCrash ==
    \/ CallLocalPut
    \/ CallGetData
    \/ PutCrash

SpecCrash == Init /\ [][NextCrash]_vars

\* ------------------------------------------------ claims on the build driver
\* The iterations of the current run that processed node id.
Processed(id) == { i \in 1 .. Len(trace) : trace[i].node = id }

\* C1 (as claimed): execute_graph processes the nodes in topological order:
\* a node is probed or materialized only after every node listed in its
\* deps has been processed.
C1_DepsProcessedFirst ==
    \A i \in 1 .. Len(trace) :
       LET deps == NodeAt(nodes, trace[i].node).deps
       IN  \A j \in 1 .. Len(deps) : \E m \in Processed(deps[j]) : m < i

\* What get_artifact(key) returns on the current cache when no I/O fails.
Lookup(key) == HybridGet(HC, key, "none").val

\* C2 (as claimed): after execute_graph returns Ok, get_artifact(node.hash)
\* returns Some for every node of the graph, whatever the node's dirty flag
\* was on entry.
C2_EveryNodeStored ==
    pc = "ok" => \A i \in 1 .. Len(nodes) : Lookup(nodes[i].hash) # None

\* C3: a cache hit short-circuits materialization.  For every node whose
\* probe returned Some, the run produced no artifact and called no
\* put_artifact for it, and the node is left with dirty = false and
\* cache_hit = true.
C3_HitShortCircuits ==
    \A i \in 1 .. Len(trace) :
       trace[i].probe = "hit" =>
          /\ ~ trace[i].built
          /\ trace[i].put = "none"
          /\ \A j \in 1 .. Len(trace[i].ops) : trace[i].ops[j].op # "remote_put"
          /\ ~ NodeAt(nodes, trace[i].node).dirty
          /\ NodeAt(nodes, trace[i].node).cache_hit

C3_Witness ==
    \E i \in 1 .. Len(trace) :
       /\ trace[i].probe = "hit"
       /\ NodeAt(nodes, trace[i].node).cache_hit

\* C4 (as claimed): after one run returned Ok, a second run over a graph
\* with the same node hashes and the same cache gets a cache hit for every
\* node and performs no put_artifact.
C4_RebuildAllHits ==
    ( /\ pc = "ok"
      /\ prev.result = "ok"
      /\ prev.hashes = Hashes(nodes) ) =>
         /\ Len(trace) = Len(nodes)
         /\ \A i \in 1 .. Len(trace) : trace[i].probe = "hit" /\ trace[i].put = "none"

\* C8: within one run, the cache write for a node is complete before the
\* probe of the next node begins.  Whenever the loop is about to probe a
\* node, every earlier iteration that wrote the cache (a put_artifact, or
\* the population of the local tier on a remote hit) has its blob file
\* written and its entry in the index.json on disk, and a put_artifact
\* with a remote configured has the key in the remote tier.
C8_WritesBeforeNextProbe ==
    pc = "running" =>
       \A i \in 1 .. Len(trace) :
          /\ HasOp(trace[i].ops, "local_put") =>
                /\ blobs[trace[i].key] # None
                /\ index.state = "json"
                /\ trace[i].key \in DOMAIN from_str(index.text)
                /\ from_str(index.text)[trace[i].key].size = Len(blobs[trace[i].key][1])
          /\ trace[i].put = "ok" =>
                /\ blobs[trace[i].key]
                      = Some(ArtifactData(NodeAt(nodes, trace[i].node).content))
                /\ HasOp(trace[i].ops, "remote_put") => remote[trace[i].key] # None

C8_Witness ==
    /\ pc = "running"
    /\ \E i \in 1 .. Len(trace) :
          /\ trace[i].put = "ok"
          /\ \E j \in 1 .. Len(trace[i].ops) : trace[i].ops[j].op = "remote_put"

\* C9 (as claimed): a sync error does not abort the build.  When
\* put_artifact failed only on the remote side, execute_graph still
\* processes every remaining node of the graph in that run.
C9_SyncErrorDoesNotAbort ==
    ( pc \in { "ok", "err" } /\ SyncFailed(trace) # {} ) =>
         \A id \in 0 .. Len(nodes) - 1 : Processed(id) # {}

\* C10 (as claimed): after a build in which the remote PUT for a key failed
\* while the local put succeeded, the next build over the same graph
\* retries the remote PUT, so that with a working remote the key is present
\* in the remote cache when that build has returned.
C10_NextBuildRetriesRemotePut ==
    ( /\ pc = "ok"
      /\ hasRemote
      /\ prev.hashes = Hashes(nodes)
      /\ \A i \in 1 .. Len(trace) : ~ Fired(trace[i].ops) ) =>
         \A k \in prev.syncFailed : remote[k] # None

\* --------------------------------------------------- claims on the cache API
\* C5: population invariant.  A get_artifact(k) that finds k in the remote
\* and not in the local tier, and meets no I/O failure, returns the remote
\* blob and leaves local.exists(k) true; and every later get_artifact(k) on
\* that cache (no put to k in between, the blob read not failing) returns
\* the same bytes from the local tier, also with the remote removed.
C5_RemotePopulation ==
    last.op = "get_artifact" =>
       /\ ( /\ last.pre.hasRemote
            /\ last.pre.local = None
            /\ last.pre.remote # None
            /\ last.fault = "none" ) =>
               /\ last.ok
               /\ last.val = last.pre.remote
               /\ exists(store, last.key)
               /\ populated[last.key] = last.pre.remote
       /\ ( populated[last.key] # None /\ last.fault # "read" ) =>
               /\ last.ok
               /\ last.val = populated[last.key]
               /\ exists(store, last.key)
               /\ ( last.pre.local # None => ~ HasOp(last.ops, "remote_get") )

\* A get_artifact served from the local tier with the remote removed, for a
\* key an earlier get_artifact had fetched from the remote.
C5_Witness ==
    /\ last.op = "get_artifact"
    /\ ~ last.pre.hasRemote
    /\ populated[last.key] # None
    /\ last.val = populated[last.key]
    /\ ~ HasOp(last.ops, "remote_get")

\* C6: when put_artifact(key, data) wrote the local tier and the remote put
\* then failed, put_artifact returns an error and the local write stays:
\* local.exists(key) is true and local.get_data(key) returns data.
C6_LocalKeptOnRemoteFailure ==
    ( /\ last.op = "put_artifact"
      /\ OpOk(last.ops, "local_put")
      /\ HasOp(last.ops, "remote_put")
      /\ ~ OpOk(last.ops, "remote_put") ) =>
         /\ ~ last.ok
         /\ exists(store, last.key)
         /\ get_data(LC, last.key, "none") = [ ok |-> TRUE, val |-> last.data ]

C6_Witness ==
    /\ last.op = "put_artifact"
    /\ OpOk(last.ops, "local_put")
    /\ HasOp(last.ops, "remote_put")
    /\ ~ OpOk(last.ops, "remote_put")
    /\ ~ last.ok

\* C7: local round trip.  After LocalCache::put calls that all returned Ok,
\* a get_data(k) whose blob read does not fail returns the data of the most
\* recent put for k, and None when k was never put.
C7_LocalRoundTrip ==
    ( last.op = "get_data" /\ putsOk /\ last.fault = "none" ) =>
         /\ last.ok
         /\ last.val = lastPut[last.key]

\* A get_data that returns the blob put for the key.
C7_Witness ==
    /\ last.op = "get_data"
    /\ putsOk
    /\ last.val # None
    /\ last.val = lastPut[last.key]

\* C11 (as claimed): a remote-side failure during lookup degrades to a cache
\* miss.  When the local tier misses and remote.get(key) fails,
\* get_artifact returns Ok(None) rather than an error.
C11_RemoteFailureIsMiss ==
    ( /\ last.op = "get_artifact"
      /\ last.pre.local = None
      /\ HasOp(last.ops, "remote_get")
      /\ ~ OpOk(last.ops, "remote_get") ) =>
         /\ last.ok
         /\ last.val = None

\* C12 (as claimed): integrity.  A get_artifact(key) that fetched from the
\* remote bytes whose hash differs from key neither returns them nor writes
\* them into the local tier; it reports a failure.
C12_NoMismatchedBytesServed ==
    ( /\ last.op = "get_artifact"
      /\ OpOk(last.ops, "remote_get")
      /\ last.pre.remote # None
      /\ HashOf(last.pre.remote[1]) # last.key ) =>
         /\ ~ last.ok
         /\ last.val = None
         /\ ~ HasOp(last.ops, "local_put")
         /\ blobs[last.key] # last.pre.remote

\* C13 (as claimed): blobs are written once and never mutated.  Once the
\* blob file of a key holds some bytes, no step of a LocalCache::put,
\* get_artifact or put_artifact changes the bytes stored for that key.
C13_BlobsNeverMutated ==
    [][ \A k \in Keys : blobs[k] # None => blobs'[k] = blobs[k] ]_vars

\* C14: two LocalCache instances on one root do not coordinate, and the last
\* writer of index.json wins.  When one instance has put key a and the
\* other, whose in-memory index did not hold a, then puts another key b
\* (both returning Ok), the index.json on disk is exactly the second
\* instance's in-memory index: it lacks a, although a.bin is on disk with
\* the bytes put.
C14_LastWriterWins ==
    LET n == Len(hist)
    IN  ( /\ n >= 2
          /\ hist[n - 1].op = "put" /\ hist[n - 1].ok
          /\ hist[n].op = "put" /\ hist[n].ok
          /\ hist[n].inst # hist[n - 1].inst
          /\ hist[n].key # hist[n - 1].key
          /\ hist[n - 1].key \notin hist[n].seen ) =>
             /\ index = IndexJson(StoreOf(hist[n].inst))
             /\ hist[n - 1].key \notin DOMAIN from_str(index.text)
             /\ hist[n - 1].key \in DOMAIN StoreOf(hist[n - 1].inst)
             /\ blobs[hist[n - 1].key] = hist[n - 1].data

\* A puts a, then B puts b: the index on disk holds b and not a.
C14_Witness ==
    LET n == Len(hist)
    IN  /\ n >= 2
        /\ hist[n - 1] = [ inst |-> "A", op |-> "put", key |-> 1,
                            data |-> Some(ArtifactData(ContentOf(1))), ok |-> TRUE,
                            seen |-> { } ]
        /\ hist[n].inst = "B" /\ hist[n].op = "put" /\ hist[n].ok
        /\ hist[n].key = 2
        /\ index.state = "json"
        /\ DOMAIN from_str(index.text) = { 2 }
        /\ blobs[1] # None

\* ------------------------------------------------- claims on the server
\* C15: remote protocol.  When the PUT received last for k was answered 201
\* with body b (no later PUT to k), a HEAD for k that meets no internal
\* error is answered 200 and such a GET is answered 200 with body b; for a
\* key no PUT was ever received for, both are answered 404.
C15_PutThenHeadGet ==
    ( resp.method \in { "HEAD", "GET" } /\ resp.fault = "none" ) =>
       /\ resp.seen = None => ( resp.status = NOT_FOUND /\ resp.body = None )
       /\ ( resp.seen # None /\ resp.seen[1].status = CREATED ) =>
             /\ resp.status = OK
             /\ resp.method = "GET" => resp.body = Some(resp.seen[1].body)

\* A GET answered 200 with the body of the PUT answered 201, after an
\* earlier PUT to the key with another body.
C15_Witness ==
    /\ resp.method = "GET"
    /\ resp.status = OK
    /\ resp.seen # None
    /\ resp.seen[1].status = CREATED
    /\ resp.seen[1].n > 1
    /\ resp.body = Some(resp.seen[1].body)
    /\ acked[resp.key] # { resp.seen[1].body }

\* C16 (as claimed): the server tolerates concurrent writers.  Once no PUT
\* is in flight, the blob stored for a key is the one blob every PUT to
\* that key answered 201 uploaded, whichever of them finished last.
C16_SingleCanonicalBlob ==
    inflight = { } =>
       \A k \in Keys : \A b \in acked[k] : storage[k] = Some(b)

\* ------------------------------------------------ claims on the retry policy
\* C17 (as claimed): the backoff is capped.  For every attempt number and
\* every jitter draw, calculate_backoff(attempt, config) is at most
\* config.max_backoff_ms.
C17_BackoffCapped ==
    ( input # None /\ input[1].fn = "calculate_backoff" /\ output # None ) =>
         output[1] <= input[1].config.max_backoff_ms

\* ------------------------------------------------ claims on the graph builder
\* C18: build_graph_from_instructions yields a linear chain.  For n
\* instructions it returns n nodes in instruction order, node i has id i,
\* node 0 has no deps and node i > 0 has deps = [i - 1]; every dep is
\* smaller than the node's id and is the id of a node of the graph.
C18_LinearChain ==
    ( input # None /\ input[1].fn = "build_graph_from_instructions" /\ output # None ) =>
       LET instructions == input[1].instructions
           g == output[1]
       IN  /\ Len(g) = Len(instructions)
           /\ \A i \in 0 .. Len(g) - 1 :
                 /\ NodeAt(g, i).id = i
                 /\ NodeAt(g, i).name = instructions[i + 1]
                 /\ NodeAt(g, i).deps = IF i = 0 THEN << >> ELSE << i - 1 >>
                 /\ \A j \in 1 .. Len(NodeAt(g, i).deps) :
                       /\ NodeAt(g, i).deps[j] < i
                       /\ \E m \in 1 .. Len(g) : g[m].id = NodeAt(g, i).deps[j]

\* A graph of MaxInstr nodes whose last node depends on the one before it.
C18_Witness ==
    /\ input # None /\ input[1].fn = "build_graph_from_instructions"
    /\ output # None
    /\ Len(output[1]) = MaxInstr
    /\ NodeAt(output[1], MaxInstr - 1).deps = << MaxInstr - 2 >>

\* The override for key k in force at position i (1-based) of the
\* instruction list: the value of the last ENV k=.. at or before i.
EnvAt(instructions, i, k) ==
    LET at == { j \in 1 .. i : instructions[j][1] = "Env" /\ instructions[j][2] = k }
    IN  IF at = { } THEN None
        ELSE Some(instructions[CHOOSE j \in at : \A m \in at : m <= j][3])

\* C19 (as claimed): the env map of node i holds every key -> value override
\* made by an ENV instruction at or before position i, a later ENV for the
\* same key replacing an earlier one, and not only the override of node i.
C19_EnvAccumulates ==
    ( input # None /\ input[1].fn = "build_graph_from_instructions" /\ output # None ) =>
       LET instructions == input[1].instructions
           g == output[1]
       IN  \A i \in 1 .. Len(g) : \A k \in 1 .. 2 :
              EnvAt(instructions, i, k) # None =>
                 /\ k \in DOMAIN g[i].env
                 /\ g[i].env[k] = EnvAt(instructions, i, k)[1]

\* ------------------------------------------------ claims on the file hasher
RECURSIVE SortedByPath(_)

\* The paths of a set in ascending order.
SortedByPath(S) ==
    IF S = { } THEN << >>
    ELSE LET least == CHOOSE x \in S : \A y \in S : x <= y
         IN  << least >> \o SortedByPath(S \ { least })

\* C20 (as claimed): hash_dir is independent of enumeration and scheduling
\* order.  For a fixed set of (relative path, content) pairs the digest
\* input is the per-file results folded in the order sorted by relative
\* path, for every order in which the walker returns the files and every
\* completion order of the per-file hashes.
C20_CanonicalFoldOrder ==
    ( input # None /\ input[1].fn = "hash_dir" /\ output # None ) =>
       LET sorted == SortedByPath(DOMAIN input[1].contents)
       IN  output[1] = FoldResults([ i \in 1 .. Len(sorted) |->
                                       << sorted[i], hash_file(input[1].contents[sorted[i]]) >> ],
                                   << >>)

\* ------------------------------------------------ claims on the fingerprint
\* C21 (as claimed): any environment drift changes the fingerprint.  Two
\* EnvFingerprint values that differ in os, arch, an env_vars entry or a
\* toolchain entry feed different bytes to the hasher, so their hashes
\* differ.
C21_DriftChangesFingerprint ==
    ( input # None /\ input[1].fn = "EnvFingerprint::hash" /\ output # None ) =>
         ( input[1].a # input[1].b => output[1].a # output[1].b )

\* ------------------------------------------------ claims on the node keys
\* The components in which two key inputs differ.
KeyDiff(x, y) ==
    { c \in { "parents", "content", "tree", "env", "fingerprint" } : x[c] # y[c] }

\* C22 (as claimed): key discrimination.  Two nodes with identical content,
\* tree hash, env, parent hash and fingerprint get identical keys, and two
\* nodes that differ in exactly one of those inputs get different keys.
C22_KeyDiscrimination ==
    ( input # None /\ input[1].fn = "compute_key" /\ output # None ) =>
       /\ input[1].a = input[1].b => output[1].a = output[1].b
       /\ Cardinality(KeyDiff(input[1].a, input[1].b)) = 1 => output[1].a # output[1].b

\* ------------------------------------------------ claims on the recipe parser
\* The text after the keyword of a line, and the two sides of an ENV argument
\* text split once on its first space or '='.
KeywordOf(raw) == to_uppercase(split_whitespace(trim(raw))[1])
EnvKeyOf(args) ==
    IF FirstSep(args, 1) = 0 THEN args ELSE SubSeq(args, 1, FirstSep(args, 1) - 1)
EnvValueOf(args) ==
    IF FirstSep(args, 1) = 0 THEN << >>
    ELSE SubSeq(args, FirstSep(args, 1) + 1, Len(args))

IsBlankOrComment(raw) == trim(raw) = << >> \/ Head(trim(raw)) = "#"

\* A malformed line: FROM or WORKDIR without an argument, COPY with fewer than
\* two arguments, ENV lacking its key or its value.
Malformed(raw) ==
    /\ ~ IsBlankOrComment(raw)
    /\ LET parts == split_whitespace(trim(raw))
           args == trim(SubSeq(trim(raw), Len(parts[1]) + 1, Len(trim(raw))))
       IN  \/ KeywordOf(raw) \in { KwFrom, KwWorkdir } /\ Len(parts) < 2
           \/ KeywordOf(raw) = KwCopy /\ Len(parts) < 3
           \/ KeywordOf(raw) = KwEnv /\ ( EnvKeyOf(args) = << >> \/ EnvValueOf(args) = << >> )

NotMalformed(raw) == ~ Malformed(raw)

\* C23: malformed lines are silently dropped: the instructions parsed from a
\* recipe are those parsed from the recipe with its malformed lines removed,
\* so a malformed line contributes no instruction of any kind and the lines
\* after it are parsed as usual.
C23_MalformedDropped ==
    ( input # None /\ input[1].fn = "parse_dockerfile" /\ output # None ) =>
        output[1] = parse_dockerfile(SelectSeq(input[1].content, NotMalformed))

\* A well-formed line: neither blank, nor a comment, nor malformed (a GIT line
\* needs its URL).
WellFormed(raw) ==
    /\ ~ IsBlankOrComment(raw)
    /\ ~ Malformed(raw)
    /\ KeywordOf(raw) = KwGit => Len(split_whitespace(trim(raw))) >= 2

\* The instruction kind the keyword of a line names, whatever its case.
KindOf(raw) ==
    CASE KeywordOf(raw) = KwFrom -> "From"
      [] KeywordOf(raw) = KwWorkdir -> "Workdir"
      [] KeywordOf(raw) = KwCopy -> "Copy"
      [] KeywordOf(raw) = KwRun -> "Run"
      [] KeywordOf(raw) = KwEnv -> "Env"
      [] KeywordOf(raw) = KwCmd -> "Cmd"
      [] KeywordOf(raw) = KwGit -> "Git"
      [] OTHER -> "Other"

\* C24: parse_dockerfile emits one instruction per well-formed line, in line
\* order: as many instructions as there are well-formed lines, the k-th of
\* the kind the keyword of the k-th well-formed line names (in any case), and
\* Other(trimmed line) for an unknown keyword.
C24_OneInstructionPerLine ==
    ( input # None /\ input[1].fn = "parse_dockerfile" /\ output # None ) =>
        LET wf == SelectSeq(input[1].content, WellFormed)
        IN  /\ Len(output[1]) = Len(wf)
            /\ \A k \in 1 .. Len(wf) :
                  k <= Len(output[1]) =>
                      /\ output[1][k][1] = KindOf(wf[k])
                      /\ KindOf(wf[k]) = "Other" => output[1][k] = Other(trim(wf[k]))

\* ------------------------------------------- claims on a damaged cache root
\* C25: a corrupted index.json is treated as an empty index and is not
\* fatal: whatever the corrupted content, LocalCache::new returns Ok with an
\* empty store, and the put and get_data calls that follow work normally (a
\* put that meets no I/O failure returns Ok and get_data then returns its
\* data; a get_data that meets none returns Ok).
C25_CorruptIndexIsEmpty ==
    /\ ( last.op = "new" /\ index.state \in { "corrupt", "binary" } ) =>
           ( last.ok /\ pc = "idle" /\ store = EmptyStore )
    /\ ( pc = "idle" /\ last.op = "put" /\ last.fault = "none" ) =>
           ( last.ok /\ get_data(LC, last.key, "none").val = last.data )
    /\ ( pc = "idle" /\ last.op = "get_data" /\ last.fault = "none" ) => last.ok

\* The LocalCache a new process would construct now on the same cache root.
FreshLC == [ store |-> load_index(index).store, index |-> index, blobs |-> blobs ]

\* C26: the index is persisted after each put: after a LocalCache::put that
\* returned Ok, index.json holds the in-memory index, so a new LocalCache on
\* the same root answers exists and get_data as the live one for every key of
\* the index, has the key just put with its data, and, when every put of the
\* instance returned Ok, has every key put so far with the data last put.
C26_IndexPersisted ==
    ( pc = "idle" /\ last.op = "put" /\ last.ok ) =>
        /\ load_index(index).ok
        /\ load_index(index).store = store
        /\ \A k \in DOMAIN store :
              /\ exists(FreshLC.store, k)
              /\ get_data(FreshLC, k, "none") = get_data(LC, k, "none")
        /\ exists(FreshLC.store, last.key)
        /\ get_data(FreshLC, last.key, "none").val = last.data
        /\ putsOk =>
              \A k \in Keys :
                 lastPut[k] # None =>
                    /\ exists(FreshLC.store, k)
                    /\ get_data(FreshLC, k, "none").val = lastPut[k]

\* Both keys were put by the instance, every put returned Ok, and index.json
\* names both.
C26_Witness ==
    /\ pc = "idle" /\ last.op = "put" /\ last.ok /\ putsOk
    /\ \A k \in Keys : lastPut[k] # None
    /\ DOMAIN load_index(index).store = Keys

\* C27: when the index holds key k and the blob file of k is missing,
\* get_data(k) returns Ok(None), exists(k) is still true afterwards, and the
\* call leaves the in-memory index and index.json as they were.
C27_StaleEntryIsMiss ==
    [][ ( /\ pc = "idle"
          /\ calls' = calls + 1
          /\ last'.op = "get_data"
          /\ last'.key \in DOMAIN store
          /\ blobs[store[last'.key].artifact_path] = None ) =>
            ( /\ last'.ok
              /\ last'.val = None
              /\ exists(store', last'.key)
              /\ store' = store
              /\ index' = index ) ]_vars

\* get_data was called for a key the index holds and whose blob file is
\* missing.
C27_Witness ==
    /\ pc = "idle"
    /\ last.op = "get_data"
    /\ last.key \in DOMAIN store
    /\ blobs[store[last.key].artifact_path] = None
    /\ last.ok /\ last.val = None

\* ------------------------------------------------ claims on the error taxonomy
\* C28: is_retryable follows the error taxonomy: false for every
\* CASIntegrityFailure, StorageError, CacheCoherencyError and
\* ConstraintViolation, true for every MetadataError, and for a NetworkError
\* the value of its retryable flag.
C28_RetryableTaxonomy ==
    ( input # None /\ input[1].fn = "is_retryable" /\ output # None ) =>
        /\ input[1].err.variant \in { "CASIntegrityFailure", "StorageError",
                                      "CacheCoherencyError", "ConstraintViolation" } =>
              output[1] = FALSE
        /\ input[1].err.variant = "MetadataError" => output[1] = TRUE
        /\ input[1].err.variant = "NetworkError" =>
              output[1] = input[1].err.retryable

\* is_retryable answered false for a network error flagged as permanent.
C28_Witness ==
    /\ input # None /\ input[1].fn = "is_retryable" /\ output = Some(FALSE)
    /\ input[1].err.variant = "NetworkError"
    /\ ~ input[1].err.retryable

\* ------------------------------------------------ claims on an aborted build
\* The iteration failed on the local side: the probe get_artifact returned
\* an error, or the local put of put_artifact did.
LocalSideFailure(rec) ==
    \/ rec.probe = "err"
    \/ rec.put = "err" /\ \E i \in 1 .. Len(rec.ops) :
                              rec.ops[i].op = "local_put" /\ ~ rec.ops[i].ok

\* The cache of a re-run: a new process on the same cache root with the
\* same remote configuration.
RerunHC == [ lc |-> FreshLC, remote |-> remote, hasRemote |-> hasRemote ]

\* C29: a local-side failure aborts the build at once and completed work is
\* reused: the failing iteration is the last one of the run, every earlier
\* iteration succeeded, the artifact of each earlier node that hit or was
\* stored is still served by the cache, and a re-run gets a cache hit for it.
C29_AbortKeepsCompletedWork ==
    ( pc = "err" /\ trace # << >> /\ LocalSideFailure(trace[Len(trace)]) ) =>
        /\ \A i \in 1 .. Len(trace) :
              /\ trace[i].node = order[i]
              /\ i < Len(trace) => ( trace[i].probe # "err" /\ trace[i].put # "err" )
        /\ \A i \in 1 .. Len(trace) - 1 :
              ( trace[i].probe = "hit" \/ trace[i].put = "ok" ) =>
                  /\ HybridGet(HC, trace[i].key, "none").val # None
                  /\ HybridGet(RerunHC, trace[i].key, "none").val # None

\* ------------------------------------------------ claims on the read path
\* C30: get_artifact is local-first and read-only towards the remote: it
\* never calls remote.put and leaves the remote tier as it was; on a local
\* hit it returns the local bytes after the local lookup alone, with no
\* remote operation and no change of the local tier; and when both tiers
\* miss it returns None and leaves both tiers unchanged.
C30_GetIsLocalFirstReadOnly ==
    [][ ( calls' = calls + 1 /\ last'.op = "get_artifact" ) =>
          LET k == last'.key
              local == get_data(LC, k, "none").val
          IN  /\ ~ HasOp(last'.ops, "remote_put")
              /\ remote' = remote
              /\ ( local # None /\ last'.ok ) =>
                    /\ last'.val = local
                    /\ last'.ops = << Op("local_get", k, TRUE) >>
                    /\ << store, index, blobs >>' = << store, index, blobs >>
              /\ ( local = None /\ ( ~ hasRemote \/ remote[k] = None ) /\ last'.ok ) =>
                    /\ last'.val = None
                    /\ ~ HasOp(last'.ops, "local_put")
                    /\ << store, index, blobs, remote >>' = << store, index, blobs, remote >>
      ]_vars

\* get_artifact was served by the local tier while a remote is configured
\* that lacks the key.
C30_Witness ==
    /\ last.op = "get_artifact" /\ last.ok
    /\ last.val # None
    /\ last.ops = << Op("local_get", last.key, TRUE) >>
    /\ hasRemote
    /\ remote[last.key] = None

\* ------------------------------------------------ claims on the write path
\* C31: put_artifact writes the local tier before the remote tier: its
\* first I/O call is the local put; when that fails the error is returned,
\* remote.put is not called and the remote tier stays as it was; so the
\* remote tier changes in a put_artifact only after its local put succeeded.
C31_LocalBeforeRemote ==
    [][ ( calls' = calls + 1 /\ last'.op = "put_artifact" ) =>
          /\ last'.ops # << >>
          /\ last'.ops[1].op = "local_put"
          /\ ~ last'.ops[1].ok =>
                ( ~ last'.ok /\ ~ HasOp(last'.ops, "remote_put") /\ remote' = remote )
          /\ ( remote' # remote \/ HasOp(last'.ops, "remote_put") ) =>
                /\ last'.ops[1].ok
                /\ exists(store', last'.key)
                /\ get_data(LC', last'.key, "none").val = last'.data
      ]_vars

\* put_artifact failed in its local put while a remote is configured.
C31_Witness ==
    /\ last.op = "put_artifact" /\ ~ last.ok
    /\ hasRemote
    /\ last.ops = << Op("local_put", last.key, FALSE) >>

\* ------------------------------------------------ claims on topological_order
\* s holds every id of 0 .. n-1 exactly once.
IsPermutation(s, n) ==
    /\ Len(s) = n
    /\ \A id \in 0 .. n - 1 : Cardinality({ i \in 1 .. Len(s) : s[i] = id }) = 1

\* C32: for every graph, whatever cycles, self-references and out-of-range
\* ids its deps hold, topological_order returns a permutation of 0..n-1,
\* and the loop of execute_graph therefore takes up every node exactly once.
C32_OrderIsPermutation ==
    ( input # None /\ input[1].fn = "topological_order" /\ output # None ) =>
        /\ IsPermutation(output[1].order, Len(input[1].nodes))
        /\ IsPermutation(output[1].processed, Len(input[1].nodes))

\* An order was returned for a three-node graph with a cycle through two
\* nodes, a self-reference and an id outside the node list.
C32_Witness ==
    /\ input # None /\ input[1].fn = "topological_order" /\ output # None
    /\ Len(input[1].nodes) = 3
    /\ input[1].nodes[1].deps = << 1, 3 >>
    /\ input[1].nodes[2].deps = << 0 >>
    /\ input[1].nodes[3].deps = << 2 >>

\* ------------------------------------------- claims on the server's probes
\* C33: HEAD and GET agree for every key in every reachable state of the
\* server, a PUT between its two steps and a PUT whose metadata insert failed
\* included: HEAD /cache/k answers 200 exactly when GET /cache/k answers 200.
C33_HeadGetAgree ==
    \A k \in Keys :
        ( check_cache(metadata, k, "none") = OK ) <=>
            ( get_artifact(storage, k, "none").status = OK )

\* ------------------------------------------------ claims on a failing put
\* C34: a LocalCache::put that returns an error leaves the cache unchanged:
\* exists(key) and get_data(key) answer as before the call, and the
\* in-memory index, equal to the persisted index.json before the call, is
\* still equal to it.
C34_FailedPutChangesNothing ==
    [][ ( calls' = calls + 1 /\ last'.op = "put" /\ ~ last'.ok ) =>
          /\ exists(store', last'.key) = exists(store, last'.key)
          /\ get_data(LC', last'.key, "none") = get_data(LC, last'.key, "none")
          /\ load_index(index).store = store =>
                ( load_index(index').ok /\ load_index(index').store = store' )
      ]_vars

\* ------------------------------------------------ claims on the index and blobs
\* C35: index implies blob: in every state reached through put and get_data
\* on one instance, a crash inside a put included, every key of the
\* persisted index.json has its blob file on disk; and once a put has
\* completed (returned Ok), the size of every entry of index.json is the
\* byte length of its blob.
C35_IndexImpliesBlob ==
    LET persisted == load_index(index).store
    IN  /\ \A k \in DOMAIN persisted : blobs[persisted[k].artifact_path] # None
        /\ ( pc = "idle" /\ last.op = "put" /\ last.ok ) =>
              \A k \in DOMAIN persisted :
                 /\ blobs[persisted[k].artifact_path] # None
                 /\ persisted[k].size = Len(blobs[persisted[k].artifact_path][1])

====
